---- MODULE Spec2Model ----
(***************************************************************************)
(* Seneca Science Club backend: the event-registration workflow            *)
(* (routes/events.js, POST /:id/register and GET /:id/registrations) and   *)
(* the account registration (routes/auth.js, POST /register), as           *)
(* concurrent request handlers over one relational store.                  *)
(*                                                                         *)
(* Every `await` of a handler is a point where other requests may run, so  *)
(* each store call of a handler is one action; the synchronous code that   *)
(* follows the call up to the next await (or the response) belongs to the  *)
(* same action.                                                            *)
(***************************************************************************)
EXTENDS Integers, Sequences, FiniteSets, TLC

\* ------------------------------------------------------------------ bounds

\* Number of HTTP requests of a run (POST /events/:id/register and
\* POST /auth/register), all of which may be in flight together.
NumReq == 2

Requests == 1..NumReq

\* ------------------------------------------------------------------ values

Null == "null"

\* Event ids that name a stored event, and one id that names none.
EventIds == {"e1", "e2"}

MissingEventId == "eX"

RequestEventIds == EventIds \cup {MissingEventId}

\* Event e1 has a capacity ceiling, e2 has none (maxCapacity null, modelled 0:
\* `event.maxCapacity &&` treats null and 0 alike).
CeilingOfE1 == 1

InitialMaxCapacity(e) == IF e = "e1" THEN CeilingOfE1 ELSE 0

ValidEmails == {"a@x.ca", "b@x.ca"}

\* A name is the sequence of its characters.
NameBo == <<"B", "o">>

NameCyDee == <<"C", "y", " ", "D">>

NameBlank == <<" ">>

\* The students who fill in the form: each has a name, a Seneca id, a program and
\* a year, and may give either e-mail address.
Students ==
    { [name |-> NameBo, senecaId |-> "S01", program |-> "BIO", year |-> 1],
      [name |-> NameCyDee, senecaId |-> "S02", program |-> "CS", year |-> 2] }

MkBody(p, e) ==
    [name |-> p.name, email |-> e, senecaId |-> p.senecaId,
     program |-> p.program, year |-> p.year]

WellFormedBodies == { MkBody(p, e) : p \in Students, e \in ValidEmails }

\* One body per rule of the validation chain that it breaks.
MalformedBodies ==
    { [name |-> NameBlank, email |-> "a@x.ca", senecaId |-> "S01", program |-> "BIO", year |-> 1],
      [name |-> NameBo, email |-> "a.x.ca", senecaId |-> "S01", program |-> "BIO", year |-> 1],
      [name |-> NameBo, email |-> "a@x.ca", senecaId |-> "", program |-> "BIO", year |-> 1],
      [name |-> NameBo, email |-> "a@x.ca", senecaId |-> "S01", program |-> "", year |-> 1],
      [name |-> NameBo, email |-> "a@x.ca", senecaId |-> "S01", program |-> "BIO", year |-> 5] }

Bodies == WellFormedBodies \cup MalformedBodies

\* What a register request carries: a well-formed body for any event id, or a
\* malformed one for the event with a ceiling or for the id that names no event.
RegisterInputs ==
    (RequestEventIds \X WellFormedBodies) \cup ({"e1", MissingEventId} \X MalformedBodies)

\* ------------------------------------------------------------------ pure functions

RECURSIVE TrimLeft(_)
TrimLeft(s) == IF s # <<>> /\ Head(s) = " " THEN TrimLeft(Tail(s)) ELSE s

RECURSIVE TrimRight(_)
TrimRight(s) ==
    IF s # <<>> /\ s[Len(s)] = " " THEN TrimRight(SubSeq(s, 1, Len(s) - 1)) ELSE s

\* express-validator's .trim() sanitizer.
Trim(s) == TrimLeft(TrimRight(s))

\* Index of the first space of s, 0 when there is none.
FirstSpace(s) ==
    IF \E i \in 1..Len(s) : s[i] = " "
    THEN CHOOSE i \in 1..Len(s) : s[i] = " " /\ \A j \in 1..(i - 1) : s[j] # " "
    ELSE 0

\* name.split(' ')[0]
FirstName(name) ==
    IF FirstSpace(name) = 0 THEN name ELSE SubSeq(name, 1, FirstSpace(name) - 1)

\* name.split(' ').slice(1).join(' ') || ''
LastName(name) ==
    IF FirstSpace(name) = 0 THEN <<>> ELSE SubSeq(name, FirstSpace(name) + 1, Len(name))

\* Every address with the shape of an e-mail address: those the students give,
\* and one that belongs to nobody.
WellFormedEmails == ValidEmails \cup {"c@x.ca"}

IsEmail(s) == s \in WellFormedEmails

\* As ValidRegisterBody, for a chain whose year rule has no `max`.
RegisterBodyNoMaxYear(b) ==
    /\ Trim(b.name) # <<>>
    /\ IsEmail(b.email)
    /\ b.senecaId # ""
    /\ b.program # ""
    /\ b.year >= 1

\* The validation chain of POST /:id/register.
ValidRegisterBody(b) ==
    /\ Trim(b.name) # <<>>
    /\ IsEmail(b.email)
    /\ b.senecaId # ""
    /\ b.program # ""
    /\ b.year \in 1..4

\* req.body after the sanitizers of the chain have run.
Sanitized(b) == [b EXCEPT !.name = Trim(b.name)]

\* As IsFull, without the `event.maxCapacity &&` guard.
IsFullWithoutCeilingGuard(ev) == ev.currentCapacity >= ev.maxCapacity

\* As IsFull, with > for >=.
IsFullOffByOne(ev) == ev.maxCapacity # 0 /\ ev.currentCapacity > ev.maxCapacity

\* `event.maxCapacity && event.currentCapacity >= event.maxCapacity`
IsFull(ev) == ev.maxCapacity # 0 /\ ev.currentCapacity >= ev.maxCapacity


\* ------------------------------------------------------------------ responses

Created == "201 Successfully registered for event"

ValidationFailed == "400 validation errors"

EventNotFound == "404 Event not found"

CapacityExceeded == "400 Event is at full capacity"

AlreadyRegistered == "400 Already registered for this event"

RegisterFailed == "500 Failed to register for event"

UserRegistered == "201 User registered successfully"

UserExists == "400 User already exists with this email or Seneca ID"

UserRegisterFailed == "500 Failed to register user"

\* ------------------------------------------------------------------ state

VARIABLES
    events,         \* Event table: id -> [maxCapacity, currentCapacity]
    users,          \* User table, in creation order; a user's id is its index
    registrations,  \* EventRegistration table, in creation (createdAt) order
    route,          \* request -> the route it is on (Null: not yet arrived)
    pc,             \* request -> the await its handler is suspended at
    reqEvent,       \* request -> req.params.id
    reqBody,        \* request -> req.body (after the sanitizers)
    userId,         \* request -> the handler's local `userId` (0: unset)
    newUserId,      \* request -> id of the user it created (0: none)
    regId,          \* request -> id of the registration it created (0: none)
    res,            \* request -> the response it sent (Null: none yet)
    caught,         \* request -> the error its catch block caught (Null: none)
    prior,          \* request -> the register requests for the same event and with
                    \* the same email or senecaId answered 201 before it arrived
    caller,         \* request -> req.user.role, "anonymous" without a user (Null: unset)
    resBody,        \* request -> the rows its response carried (<<>>: none)
    messages,       \* ContactMessage table, in creation order; a message's id is
                    \* its index, and a deleted row keeps its place with `deleted`
    msgId,          \* request -> id of the contact message it created (0: none)
    mailed,         \* request -> how its sendMail ended (Null: not called)
    inactive,       \* the ids of the users whose isActive is false
    resetToken,     \* request -> id of the user it signed a reset token for (0: none)
    blogPosts,      \* BlogPost table: id -> row
    blogFile,       \* data/blog-posts.json: the array of posts it holds
    snapshot,       \* request -> the array its readBlogPosts returned
    issued,         \* the tokens signed so far
    galleryItems,   \* GalleryItem table, in creation order
    sent,           \* request -> how many responses its handler has sent
    uploaded        \* request -> how its media upload ended (Null: not yet)

storeVars == <<events, users, registrations>>

\* What the register and the account handlers never touch.
contactVars == <<messages, msgId, mailed>>

accountVars == <<inactive, resetToken>>

blogVars == <<blogPosts, blogFile, snapshot>>

galleryVars == <<galleryItems, sent, uploaded>>

\* The state of the blog, token and gallery routes.
extraVars == <<blogVars, issued, galleryVars>>

otherVars == <<caller, resBody, contactVars, accountVars, extraVars>>

vars == <<events, users, registrations, route, pc, reqEvent, reqBody, userId, newUserId,
          regId, res, caught, prior, caller, resBody, messages, msgId, mailed, inactive,
          resetToken, blogPosts, blogFile, snapshot, issued, galleryItems, sent, uploaded>>

\* ------------------------------------------------------------------ the store

\* As FindUniqueEvent, for a lookup that drops the `where`: findFirst().
FindFirstEvent(id) ==
    IF DOMAIN events = {} THEN {} ELSE {events[CHOOSE e \in DOMAIN events : TRUE]}

\* prisma.event.findUnique({ where: { id } }): the set of rows found (none or one).
FindUniqueEvent(id) == IF id \in DOMAIN events THEN {events[id]} ELSE {}

\* The rows prisma.user.findFirst({ where: { OR: [{ email }, { senecaId }] } })
\* may return: the query has no orderBy, so any matching row can come first.
MatchingUsers(email, senecaId) ==
    { i \in 1..Len(users) : users[i].email = email \/ users[i].senecaId = senecaId }

\* prisma.eventRegistration.findFirst({ where: { userId, eventId } }), as a set of rows.
FindRegistrations(uid, eid) ==
    { i \in 1..Len(registrations) :
        registrations[i].userId = uid /\ registrations[i].eventId = eid }

\* The stored users with this e-mail address.
UsersByEmail(email) == { i \in 1..Len(users) : users[i].email = email }

\* As HasRegistration, for a handler that skips the duplicate check.
HasRegistrationUnchecked(uid, eid) == FALSE

\* `if (existingRegistration)`
HasRegistration(uid, eid) == FindRegistrations(uid, eid) # {}

\* As EmailFree, for a schema without the @unique of User.email.
EmailNotEnforced(email) == TRUE

\* User.email is @unique: no stored user has this email.
EmailFree(email) == \A i \in 1..Len(users) : users[i].email # email

\* Uniqueness of User.senecaId (data model: natural key uniqueness).
SenecaIdFree(senecaId) == \A i \in 1..Len(users) : users[i].senecaId # senecaId

\* As PairFree, for a store that does not enforce the unique pair.
PairNotEnforced(uid, eid) == TRUE

\* Uniqueness of the pair (userId, eventId) of EventRegistration (data model).
PairFree(uid, eid) == FindRegistrations(uid, eid) = {}

\* The row prisma.user.create writes in POST /:id/register.
NewParticipant(b) ==
    [email |-> b.email, senecaId |-> b.senecaId,
     firstName |-> FirstName(b.name), lastName |-> LastName(b.name),
     program |-> b.program, year |-> b.year, role |-> "MEMBER"]

\* As Incremented, for a handler that leaves the count as it is.
NotIncremented(ev) == ev

\* data: { currentCapacity: { increment: 1 } }
Incremented(ev) == [ev EXCEPT !.currentCapacity = @ + 1]

\* ------------------------------------------------------------------ initial state

\* No blog post, no token, no gallery item yet.
InitExtraWith(file, tokens) ==
    /\ blogPosts = <<>>
    /\ blogFile = file
    /\ snapshot = [r \in Requests |-> <<>>]
    /\ issued = tokens
    /\ galleryItems = <<>>
    /\ sent = [r \in Requests |-> 0]
    /\ uploaded = [r \in Requests |-> Null]

InitExtra == InitExtraWith(<<>>, {})

Init ==
    /\ events = [e \in EventIds |->
                    [maxCapacity |-> InitialMaxCapacity(e), currentCapacity |-> 0]]
    /\ users = <<>>
    /\ registrations = <<>>
    /\ route = [r \in Requests |-> Null]
    /\ pc = [r \in Requests |-> "idle"]
    /\ reqEvent = [r \in Requests |-> Null]
    /\ reqBody = [r \in Requests |-> Null]
    /\ userId = [r \in Requests |-> 0]
    /\ newUserId = [r \in Requests |-> 0]
    /\ regId = [r \in Requests |-> 0]
    /\ res = [r \in Requests |-> Null]
    /\ caught = [r \in Requests |-> Null]
    /\ prior = [r \in Requests |-> {}]
    /\ caller = [r \in Requests |-> Null]
    /\ resBody = [r \in Requests |-> <<>>]
    /\ messages = <<>>
    /\ msgId = [r \in Requests |-> 0]
    /\ mailed = [r \in Requests |-> Null]
    /\ inactive = {}
    /\ resetToken = [r \in Requests |-> 0]
    /\ InitExtra

\* ------------------------------------------------------------------ POST /:id/register

\* The handler sends `response` and returns.
Respond(r, response) ==
    /\ pc' = [pc EXCEPT ![r] = "done"]
    /\ res' = [res EXCEPT ![r] = response]
    /\ UNCHANGED caught

StoreUnavailable == "store unavailable"

UniqueConstraint == "unique constraint failed"

\* As Throw, for a catch block that logs the error and answers 201 all the same.
ThrowSwallowed(r, error, response) ==
    /\ pc' = [pc EXCEPT ![r] = "done"]
    /\ res' = [res EXCEPT ![r] = Created]
    /\ caught' = [caught EXCEPT ![r] = error]

\* A store call rejects with `error`: the catch block logs it and answers 500.
Throw(r, error, response) ==
    /\ pc' = [pc EXCEPT ![r] = "done"]
    /\ res' = [res EXCEPT ![r] = response]
    /\ caught' = [caught EXCEPT ![r] = error]

RegisterRoute == "POST /events/:id/register"

AccountRoute == "POST /auth/register"

\* The requests answered 201 for event e with this email or this senecaId.
PriorSuccesses(e, b) ==
    { q \in Requests :
        /\ res[q] = Created
        /\ reqEvent[q] = e
        /\ (reqBody[q].email = b.email \/ reqBody[q].senecaId = b.senecaId) }

\* A request arrives; the validation chain runs before the handler's first await.
\* (Requests are numbered in their order of arrival.)
Receive(r, e, b) ==
    /\ pc[r] = "idle"
    /\ \A q \in Requests : q < r => pc[q] # "idle"
    /\ route' = [route EXCEPT ![r] = RegisterRoute]
    /\ reqEvent' = [reqEvent EXCEPT ![r] = e]
    /\ prior' = [prior EXCEPT ![r] = PriorSuccesses(e, b)]
    /\ IF ValidRegisterBody(b)
       THEN /\ reqBody' = [reqBody EXCEPT ![r] = Sanitized(b)]
            /\ pc' = [pc EXCEPT ![r] = "findEvent"]
            /\ UNCHANGED <<res, caught>>
       ELSE /\ reqBody' = [reqBody EXCEPT ![r] = b]
            /\ Respond(r, ValidationFailed)
    /\ UNCHANGED <<storeVars, userId, newUserId, regId>>
    /\ UNCHANGED otherVars

\* await prisma.event.findUnique, then the existence and the capacity checks.
FindEvent(r) ==
    /\ pc[r] = "findEvent"
    /\ LET found == FindUniqueEvent(reqEvent[r]) IN
         IF found = {}
         THEN Respond(r, EventNotFound)
         ELSE LET event == CHOOSE ev \in found : TRUE IN
              IF IsFull(event)
              THEN Respond(r, CapacityExceeded)
              ELSE pc' = [pc EXCEPT ![r] = "findUser"] /\ UNCHANGED <<res, caught>>
    /\ UNCHANGED <<storeVars, reqEvent, reqBody, userId, newUserId, regId, prior, route>>
    /\ UNCHANGED otherVars

\* await prisma.user.findFirst: an existing user is taken, or a new one is due.
FindUser(r) ==
    /\ pc[r] = "findUser"
    /\ LET found == MatchingUsers(reqBody[r].email, reqBody[r].senecaId) IN
         IF found # {}
         THEN \E u \in found :
                /\ userId' = [userId EXCEPT ![r] = u]
                /\ pc' = [pc EXCEPT ![r] = "findRegistration"]
         ELSE /\ pc' = [pc EXCEPT ![r] = "createUser"]
              /\ UNCHANGED userId
    /\ UNCHANGED <<storeVars, reqEvent, reqBody, newUserId, regId, res, caught, prior, route>>
    /\ UNCHANGED otherVars

\* await prisma.eventRegistration.findFirst for the existing user.
FindRegistration(r) ==
    /\ pc[r] = "findRegistration"
    /\ IF HasRegistration(userId[r], reqEvent[r])
       THEN Respond(r, AlreadyRegistered)
       ELSE pc' = [pc EXCEPT ![r] = "createRegistration"] /\ UNCHANGED <<res, caught>>
    /\ UNCHANGED <<storeVars, reqEvent, reqBody, userId, newUserId, regId, prior, route>>
    /\ UNCHANGED otherVars

\* await prisma.user.create; a unique-constraint violation throws into the catch.
CreateUser(r) ==
    /\ pc[r] = "createUser"
    /\ IF EmailFree(reqBody[r].email) /\ SenecaIdFree(reqBody[r].senecaId)
       THEN /\ users' = Append(users, NewParticipant(reqBody[r]))
            /\ userId' = [userId EXCEPT ![r] = Len(users) + 1]
            /\ newUserId' = [newUserId EXCEPT ![r] = Len(users) + 1]
            /\ pc' = [pc EXCEPT ![r] = "createRegistration"]
            /\ UNCHANGED <<res, caught>>
       ELSE /\ Throw(r, UniqueConstraint, RegisterFailed)
            /\ UNCHANGED <<users, userId, newUserId>>
    /\ UNCHANGED <<events, registrations, reqEvent, reqBody, regId, prior, route>>
    /\ UNCHANGED otherVars

\* await prisma.eventRegistration.create
CreateRegistration(r) ==
    /\ pc[r] = "createRegistration"
    /\ IF PairFree(userId[r], reqEvent[r])
       THEN /\ registrations' =
                  Append(registrations, [userId |-> userId[r], eventId |-> reqEvent[r]])
            /\ regId' = [regId EXCEPT ![r] = Len(registrations) + 1]
            /\ pc' = [pc EXCEPT ![r] = "updateEvent"]
            /\ UNCHANGED <<res, caught>>
       ELSE /\ Throw(r, UniqueConstraint, RegisterFailed)
            /\ UNCHANGED <<registrations, regId>>
    /\ UNCHANGED <<events, users, reqEvent, reqBody, userId, newUserId, prior, route>>
    /\ UNCHANGED otherVars

\* await prisma.event.update (an atomic increment in the store), then the 201.
UpdateEvent(r) ==
    /\ pc[r] = "updateEvent"
    /\ events' = [events EXCEPT ![reqEvent[r]] = Incremented(@)]
    /\ Respond(r, Created)
    /\ UNCHANGED <<users, registrations, reqEvent, reqBody, userId, newUserId, regId,
                   prior, route>>
    /\ UNCHANGED otherVars

StoreSteps ==
    {"findEvent", "findUser", "findRegistration", "createUser", "createRegistration",
     "updateEvent"}

\* Any store call may reject (store unavailable): the catch block answers 500.
StoreError(r) ==
    /\ pc[r] \in StoreSteps
    /\ Throw(r, StoreUnavailable, RegisterFailed)
    /\ UNCHANGED <<storeVars, reqEvent, reqBody, userId, newUserId, regId, prior, route>>
    /\ UNCHANGED otherVars


\* ------------------------------------------------------------------ POST /auth/register

MkAccountBody(e, s, pw) ==
    [firstName |-> <<"A", "l">>, lastName |-> <<"L", "i">>, email |-> e, senecaId |-> s,
     program |-> "BIO", year |-> 1, password |-> pw]

AccountBodies ==
    { MkAccountBody("a@x.ca", "S01", "secret1"),
      MkAccountBody("b@x.ca", "S02", "secret1"),
      MkAccountBody("a@x.ca", "S01", "abc") }

\* The validation chain of POST /auth/register.
ValidAccountBody(b) ==
    /\ Len(Trim(b.firstName)) \in 2..50
    /\ Len(Trim(b.lastName)) \in 2..50
    /\ IsEmail(b.email)
    /\ Len(b.senecaId) \in 3..20
    /\ Len(b.program) \in 2..100
    /\ b.year \in 1..4
    /\ Len(b.password) >= 6

\* The row prisma.user.create writes in POST /auth/register.
NewAccount(b) ==
    [email |-> b.email, senecaId |-> b.senecaId,
     firstName |-> Trim(b.firstName), lastName |-> Trim(b.lastName),
     program |-> b.program, year |-> b.year, role |-> "MEMBER"]

AuthReceive(r, b) ==
    /\ pc[r] = "idle"
    /\ \A q \in Requests : q < r => pc[q] # "idle"
    /\ route' = [route EXCEPT ![r] = AccountRoute]
    /\ reqBody' = [reqBody EXCEPT ![r] = b]
    /\ IF ValidAccountBody(b)
       THEN pc' = [pc EXCEPT ![r] = "authFindUser"] /\ UNCHANGED <<res, caught>>
       ELSE Respond(r, ValidationFailed)
    /\ UNCHANGED <<storeVars, reqEvent, userId, newUserId, regId, prior>>
    /\ UNCHANGED otherVars

\* await prisma.user.findFirst; then `await bcrypt.hash` suspends the handler again.
AuthFindUser(r) ==
    /\ pc[r] = "authFindUser"
    /\ IF MatchingUsers(reqBody[r].email, reqBody[r].senecaId) # {}
       THEN Respond(r, UserExists)
       ELSE pc' = [pc EXCEPT ![r] = "authCreateUser"] /\ UNCHANGED <<res, caught>>
    /\ UNCHANGED <<storeVars, reqEvent, reqBody, userId, newUserId, regId, prior, route>>
    /\ UNCHANGED otherVars

\* await prisma.user.create, then the token and the 201.
AuthCreateUser(r) ==
    /\ pc[r] = "authCreateUser"
    /\ IF EmailFree(reqBody[r].email) /\ SenecaIdFree(reqBody[r].senecaId)
       THEN /\ users' = Append(users, NewAccount(reqBody[r]))
            /\ newUserId' = [newUserId EXCEPT ![r] = Len(users) + 1]
            /\ Respond(r, UserRegistered)
       ELSE /\ Throw(r, UniqueConstraint, UserRegisterFailed)
            /\ UNCHANGED <<users, newUserId>>
    /\ UNCHANGED <<events, registrations, reqEvent, reqBody, userId, regId, prior, route>>
    /\ UNCHANGED otherVars

\* A rejected store call: the catch block answers 500.
AuthStoreError(r) ==
    /\ pc[r] \in {"authFindUser", "authCreateUser"}
    /\ Throw(r, StoreUnavailable, UserRegisterFailed)
    /\ UNCHANGED <<storeVars, reqEvent, reqBody, userId, newUserId, regId, prior, route>>
    /\ UNCHANGED otherVars

\* ------------------------------------------------------------------ GET /:id/registrations

RECURSIVE RegistrationsWhere(_, _)
RegistrationsWhere(s, eid) ==
    IF s = <<>> THEN <<>>
    ELSE IF Head(s).eventId = eid
         THEN <<Head(s)>> \o RegistrationsWhere(Tail(s), eid)
         ELSE RegistrationsWhere(Tail(s), eid)

\* The body an admin receives: the registrations of the event in creation order,
\* each with the selected columns of its user.
ListRegistrations(eid) ==
    LET rows == RegistrationsWhere(registrations, eid) IN
    [i \in 1..Len(rows) |->
        [userId |-> rows[i].userId, eventId |-> rows[i].eventId,
         user |-> [firstName |-> users[rows[i].userId].firstName,
                   lastName |-> users[rows[i].userId].lastName,
                   email |-> users[rows[i].userId].email,
                   program |-> users[rows[i].userId].program,
                   year |-> users[rows[i].userId].year]]]

\* `auth`, the middleware in front of the handler: it lets a request through with
\* req.user set when the request carries a valid token, and answers 401 otherwise.
Roles == {"ADMIN", "MODERATOR", "MEMBER"}

Anonymous == "anonymous"

Callers == Roles \cup {Anonymous}

Authenticated(c) == c \in Roles

Unauthorized == "401 Authentication required"

Forbidden == "403 Admin access required"

RegistrationsListed == "200 registrations"

ListFailed == "500 Failed to fetch registrations"

ListRoute == "GET /events/:id/registrations"

\* As IsAdmin, for a check that lets moderators through as well.
IsStaff(role) == role \in {"ADMIN", "MODERATOR"}

\* The negation of `req.user.role !== 'ADMIN'`
IsAdmin(role) == role = "ADMIN"

\* A request arrives: `auth` runs, then the role check before the handler's await.
ListReceive(r, e, c) ==
    /\ pc[r] = "idle"
    /\ \A q \in Requests : q < r => pc[q] # "idle"
    /\ route' = [route EXCEPT ![r] = ListRoute]
    /\ reqEvent' = [reqEvent EXCEPT ![r] = e]
    /\ caller' = [caller EXCEPT ![r] = c]
    /\ IF ~Authenticated(c)
       THEN Respond(r, Unauthorized)
       ELSE IF ~IsAdmin(c)
            THEN Respond(r, Forbidden)
            ELSE pc' = [pc EXCEPT ![r] = "findRegistrations"] /\ UNCHANGED <<res, caught>>
    /\ UNCHANGED <<storeVars, reqBody, userId, newUserId, regId, prior>>
    /\ UNCHANGED <<resBody, contactVars, accountVars, extraVars>>

\* await prisma.eventRegistration.findMany, then res.json(registrations).
ListFind(r) ==
    /\ pc[r] = "findRegistrations"
    /\ resBody' = [resBody EXCEPT ![r] = ListRegistrations(reqEvent[r])]
    /\ Respond(r, RegistrationsListed)
    /\ UNCHANGED <<storeVars, route, reqEvent, reqBody, userId, newUserId, regId, prior>>
    /\ UNCHANGED <<caller, contactVars, accountVars, extraVars>>

\* The findMany rejects: the catch block answers 500.
ListStoreError(r) ==
    /\ pc[r] = "findRegistrations"
    /\ Throw(r, StoreUnavailable, ListFailed)
    /\ UNCHANGED <<storeVars, route, reqEvent, reqBody, userId, newUserId, regId, prior>>
    /\ UNCHANGED otherVars

\* ------------------------------------------------------------------ contact routes

Hello == <<"H", "e", "l", "l", "o">>

LongText == <<"P", "l", "e", "a", "s", "e", " ", "f", "i", "x">>

MkContactBody(n, e, s, m) == [name |-> n, email |-> e, subject |-> s, message |-> m]

\* Two forms the chain accepts, and one per rule that it breaks.
ContactBodies ==
    { MkContactBody(NameBo, "a@x.ca", Hello, LongText),
      MkContactBody(NameCyDee, "b@x.ca", Hello \o <<" ">>, LongText),
      MkContactBody(<<"B", " ">>, "a@x.ca", Hello, LongText),
      MkContactBody(NameBo, "a.x.ca", Hello, LongText),
      MkContactBody(NameBo, "a@x.ca", <<"H", "i">>, LongText),
      MkContactBody(NameBo, "a@x.ca", Hello, Hello) }

\* The validation chain of POST /contact.
ValidContactBody(b) ==
    /\ Len(Trim(b.name)) \in 2..50
    /\ IsEmail(b.email)
    /\ Len(Trim(b.subject)) \in 5..100
    /\ Len(Trim(b.message)) \in 10..1000

\* req.body after the sanitizers of the chain have run.
SanitizedContact(b) ==
    [b EXCEPT !.name = Trim(b.name), !.subject = Trim(b.subject),
              !.message = Trim(b.message)]

\* The row prisma.contactMessage.create writes (isRead starts false).
NewMessage(b) ==
    [name |-> b.name, email |-> b.email, subject |-> b.subject, message |-> b.message,
     isRead |-> FALSE, deleted |-> FALSE]

\* The ids of the stored contact messages.
MessageIds == { i \in 1..Len(messages) : ~messages[i].deleted }

\* findMany({ orderBy: { createdAt: 'desc' } }): the ids of rows 1..n, newest first.
RECURSIVE NewestFirst(_)
NewestFirst(n) ==
    IF n = 0 THEN <<>>
    ELSE IF n \in MessageIds THEN <<n>> \o NewestFirst(n - 1) ELSE NewestFirst(n - 1)

ContactSubmitted == "201 Contact form submitted successfully"

ContactFailed == "500 Failed to submit contact form"

MessagesListed == "200 messages"

MessagesFailed == "500 Failed to fetch contact messages"

MessageRead == "200 message"

ReadFailed == "500 Failed to mark message as read"

MessageDeleted == "200 Message deleted successfully"

DeleteFailed == "500 Failed to delete message"

RecordNotFound == "record not found"

MailSent == "sent"

MailFailed == "failed"

ContactRoute == "POST /contact"

MessagesRoute == "GET /contact"

ReadRoute == "PATCH /contact/:id/read"

DeleteRoute == "DELETE /contact/:id"

\* As AfterSendMail, for a handler that lets the error of sendMail reach the outer catch.
AfterSendMailRethrown(outcome) ==
    IF outcome = MailSent THEN ContactSubmitted ELSE ContactFailed

\* What the handler answers once sendMail has settled: the inner catch logs a
\* failure and the 201 follows either way.
AfterSendMail(outcome) == ContactSubmitted

\* A contact form arrives; the validation chain runs before the first await.
ContactReceive(r, b) ==
    /\ pc[r] = "idle"
    /\ \A q \in Requests : q < r => pc[q] # "idle"
    /\ route' = [route EXCEPT ![r] = ContactRoute]
    /\ IF ValidContactBody(b)
       THEN /\ reqBody' = [reqBody EXCEPT ![r] = SanitizedContact(b)]
            /\ pc' = [pc EXCEPT ![r] = "createMessage"]
            /\ UNCHANGED <<res, caught>>
       ELSE /\ reqBody' = [reqBody EXCEPT ![r] = b]
            /\ Respond(r, ValidationFailed)
    /\ UNCHANGED <<storeVars, reqEvent, userId, newUserId, regId, prior>>
    /\ UNCHANGED otherVars

\* await prisma.contactMessage.create; the handler then calls sendMail.
ContactCreate(r) ==
    /\ pc[r] = "createMessage"
    /\ messages' = Append(messages, NewMessage(reqBody[r]))
    /\ msgId' = [msgId EXCEPT ![r] = Len(messages) + 1]
    /\ pc' = [pc EXCEPT ![r] = "sendMail"]
    /\ UNCHANGED <<storeVars, route, reqEvent, reqBody, userId, newUserId, regId, prior>>
    /\ UNCHANGED <<res, caught, caller, resBody, mailed, accountVars, extraVars>>

\* The create rejects: the outer catch answers 500.
ContactStoreError(r) ==
    /\ pc[r] = "createMessage"
    /\ Throw(r, StoreUnavailable, ContactFailed)
    /\ UNCHANGED <<storeVars, route, reqEvent, reqBody, userId, newUserId, regId, prior>>
    /\ UNCHANGED otherVars

\* await transporter.sendMail settles, one way or the other; then the response.
ContactSendMail(r, outcome) ==
    /\ pc[r] = "sendMail"
    /\ mailed' = [mailed EXCEPT ![r] = outcome]
    /\ Respond(r, AfterSendMail(outcome))
    /\ UNCHANGED <<storeVars, route, reqEvent, reqBody, userId, newUserId, regId, prior>>
    /\ UNCHANGED <<caller, resBody, messages, msgId, accountVars, extraVars>>

\* A request for one of the three message routes arrives from caller c. No
\* middleware and no check stands before the handler's store call.
MessageOpReceive(r, op, id, c) ==
    /\ pc[r] = "idle"
    /\ \A q \in Requests : q < r => pc[q] # "idle"
    /\ route' = [route EXCEPT ![r] = op]
    /\ reqEvent' = [reqEvent EXCEPT ![r] = id]
    /\ caller' = [caller EXCEPT ![r] = c]
    /\ pc' = [pc EXCEPT ![r] = "messageOp"]
    /\ UNCHANGED <<storeVars, reqBody, userId, newUserId, regId, prior, res, caught>>
    /\ UNCHANGED <<resBody, contactVars, accountVars, extraVars>>

\* await prisma.contactMessage.findMany, then res.json(messages).
MessagesFind(r) ==
    /\ pc[r] = "messageOp"
    /\ route[r] = MessagesRoute
    /\ resBody' = [resBody EXCEPT ![r] = NewestFirst(Len(messages))]
    /\ Respond(r, MessagesListed)
    /\ UNCHANGED <<storeVars, route, reqEvent, reqBody, userId, newUserId, regId, prior>>
    /\ UNCHANGED <<caller, contactVars, accountVars, extraVars>>

\* await prisma.contactMessage.update({ where: { id }, data: { isRead: true } });
\* the update rejects when no row has the id.
MessageMarkRead(r) ==
    /\ pc[r] = "messageOp"
    /\ route[r] = ReadRoute
    /\ IF reqEvent[r] \in MessageIds
       THEN /\ messages' = [messages EXCEPT ![reqEvent[r]].isRead = TRUE]
            /\ Respond(r, MessageRead)
       ELSE /\ Throw(r, RecordNotFound, ReadFailed)
            /\ UNCHANGED messages
    /\ UNCHANGED <<storeVars, route, reqEvent, reqBody, userId, newUserId, regId, prior>>
    /\ UNCHANGED <<caller, resBody, msgId, mailed, accountVars, extraVars>>

\* await prisma.contactMessage.delete({ where: { id } }); rejects when no row has the id.
MessageDelete(r) ==
    /\ pc[r] = "messageOp"
    /\ route[r] = DeleteRoute
    /\ IF reqEvent[r] \in MessageIds
       THEN /\ messages' = [messages EXCEPT ![reqEvent[r]].deleted = TRUE]
            /\ Respond(r, MessageDeleted)
       ELSE /\ Throw(r, RecordNotFound, DeleteFailed)
            /\ UNCHANGED messages
    /\ UNCHANGED <<storeVars, route, reqEvent, reqBody, userId, newUserId, regId, prior>>
    /\ UNCHANGED <<caller, resBody, msgId, mailed, accountVars, extraVars>>

\* The failure answer of each message route.
MessageOpFailed(op) ==
    IF op = MessagesRoute THEN MessagesFailed
    ELSE IF op = ReadRoute THEN ReadFailed ELSE DeleteFailed

\* The store call of a message route rejects (store unavailable).
MessageStoreError(r) ==
    /\ pc[r] = "messageOp"
    /\ Throw(r, StoreUnavailable, MessageOpFailed(route[r]))
    /\ UNCHANGED <<storeVars, route, reqEvent, reqBody, userId, newUserId, regId, prior>>
    /\ UNCHANGED otherVars

\* ------------------------------------------------------------------ POST /auth/forgot-password

ForgotRoute == "POST /auth/forgot-password"

DeactivateRoute == "PATCH /members/deactivate"

\* The addresses a forgot-password request may carry, one of them malformed.
ForgotEmails == WellFormedEmails \cup {"a.x.ca"}

\* As NoAccountAnswer, for a handler that tells the caller that no account matched.
NoAccountRevealed == "404 No account with this email"

\* The answer when no user has the email, or the user is deactivated.
NoAccountAnswer == "200 If an account exists with this email, a reset link has been sent"

\* The answer after the reset token of an active user was signed and logged.
ResetSentAnswer == "200 If an account exists with this email, a reset link has been sent"

ForgotFailed == "500 Failed to process forgot password request"

Deactivated == "200 Account deactivated successfully"

DeactivateFailed == "500 Failed to deactivate account"

\* `user.isActive`
IsActive(u) == u \notin inactive

\* A forgot-password request arrives; the validation runs before the first await.
ForgotReceive(r, email) ==
    /\ pc[r] = "idle"
    /\ \A q \in Requests : q < r => pc[q] # "idle"
    /\ route' = [route EXCEPT ![r] = ForgotRoute]
    /\ reqBody' = [reqBody EXCEPT ![r] = [email |-> email]]
    /\ IF IsEmail(email)
       THEN pc' = [pc EXCEPT ![r] = "forgotFindUser"] /\ UNCHANGED <<res, caught>>
       ELSE Respond(r, ValidationFailed)
    /\ UNCHANGED <<storeVars, reqEvent, userId, newUserId, regId, prior>>
    /\ UNCHANGED otherVars

\* await prisma.user.findUnique({ where: { email } }); then the early return, or
\* jwt.sign, console.log and the response.
ForgotFindUser(r) ==
    /\ pc[r] = "forgotFindUser"
    /\ LET found == UsersByEmail(reqBody[r].email) IN
         IF found = {} \/ \A u \in found : ~IsActive(u)
         THEN /\ Respond(r, NoAccountAnswer)
              /\ UNCHANGED <<resetToken, issued>>
         ELSE /\ resetToken' = [resetToken EXCEPT ![r] = CHOOSE u \in found : TRUE]
              /\ issued' = issued \cup {[userId |-> CHOOSE u \in found : TRUE,
                                          type |-> "password-reset"]}
              /\ Respond(r, ResetSentAnswer)
    /\ UNCHANGED <<storeVars, route, reqEvent, reqBody, userId, newUserId, regId, prior>>
    /\ UNCHANGED <<caller, resBody, contactVars, inactive, blogVars, galleryVars>>

\* The findUnique rejects: the catch block answers 500.
ForgotStoreError(r) ==
    /\ pc[r] = "forgotFindUser"
    /\ Throw(r, StoreUnavailable, ForgotFailed)
    /\ UNCHANGED <<storeVars, route, reqEvent, reqBody, userId, newUserId, regId, prior>>
    /\ UNCHANGED otherVars

\* PATCH /members/deactivate arrives with the token of user u (req.user.id).
DeactivateReceive(r, u) ==
    /\ pc[r] = "idle"
    /\ \A q \in Requests : q < r => pc[q] # "idle"
    /\ u \in 1..Len(users)
    /\ route' = [route EXCEPT ![r] = DeactivateRoute]
    /\ userId' = [userId EXCEPT ![r] = u]
    /\ pc' = [pc EXCEPT ![r] = "deactivate"]
    /\ UNCHANGED <<storeVars, reqEvent, reqBody, newUserId, regId, prior, res, caught>>
    /\ UNCHANGED otherVars

\* await prisma.user.update({ data: { isActive: false } }), then the response.
DeactivateUpdate(r) ==
    /\ pc[r] = "deactivate"
    /\ inactive' = inactive \cup {userId[r]}
    /\ Respond(r, Deactivated)
    /\ UNCHANGED <<storeVars, route, reqEvent, reqBody, userId, newUserId, regId, prior>>
    /\ UNCHANGED <<caller, resBody, contactVars, resetToken, extraVars>>

\* The update rejects: the catch block answers 500.
DeactivateStoreError(r) ==
    /\ pc[r] = "deactivate"
    /\ Throw(r, StoreUnavailable, DeactivateFailed)
    /\ UNCHANGED <<storeVars, route, reqEvent, reqBody, userId, newUserId, regId, prior>>
    /\ UNCHANGED otherVars

\* ------------------------------------------------------------------ POST /, PUT /:id, DELETE /:id

CreateEventRoute == "POST /events"

UpdateEventRoute == "PUT /events/:id"

DeleteEventRoute == "DELETE /events/:id"

EventRoutes == {CreateEventRoute, UpdateEventRoute, DeleteEventRoute}

\* The ids the store gives to created events, one per request.
NewEventIds == [r \in Requests |-> <<"n1", "n2", "n3", "n4">>[r]]

\* req.body of an event request: only the fields that are sent are present.
\* A title of two characters breaks the title rule; currentCapacity is a column
\* that no rule of either chain looks at.
EventBodies ==
    { [title |-> Hello, maxCapacity |-> CeilingOfE1],
      [title |-> Hello],
      [title |-> Hello, maxCapacity |-> CeilingOfE1, currentCapacity |-> CeilingOfE1 + 1],
      [currentCapacity |-> CeilingOfE1 + 1],
      [title |-> <<"H", "i">>] }

Has(b, field) == field \in DOMAIN b

\* The validation chain of POST / (the fields the model carries).
ValidCreateBody(b) ==
    /\ Has(b, "title") /\ Len(Trim(b.title)) \in 3..100
    /\ Has(b, "maxCapacity") => b.maxCapacity >= 1

\* The validation chain of PUT /:id: every rule is optional, none is about capacity.
ValidUpdateBody(b) == Has(b, "title") => Len(Trim(b.title)) \in 3..100

ValidEventBody(op, b) ==
    IF op = CreateEventRoute THEN ValidCreateBody(b)
    ELSE IF op = UpdateEventRoute THEN ValidUpdateBody(b) ELSE TRUE

\* prisma.event.update({ data: req.body }): the columns sent overwrite the row.
Overwritten(row, b) ==
    [maxCapacity |-> IF Has(b, "maxCapacity") THEN b.maxCapacity ELSE row.maxCapacity,
     currentCapacity |->
        IF Has(b, "currentCapacity") THEN b.currentCapacity ELSE row.currentCapacity]

\* prisma.event.create({ data: req.body }): the columns not sent take their
\* defaults (no ceiling, count 0).
NewEvent(b) == Overwritten([maxCapacity |-> 0, currentCapacity |-> 0], b)

EventCreated == "201 event"

EventUpdated == "200 event"

EventDeleted == "200 Event deleted successfully"

\* The failure answer of each event route.
EventOpFailed(op) ==
    IF op = CreateEventRoute THEN "500 Failed to create event"
    ELSE IF op = UpdateEventRoute THEN "500 Failed to update event"
    ELSE "500 Failed to delete event"

\* As EventOpAnswer, for a handler that looks at validationResult first.
EventOpAnswerValidationFirst(role, valid) ==
    IF ~valid THEN ValidationFailed
    ELSE IF ~IsAdmin(role) THEN Forbidden ELSE Null

\* What the handler answers before its store call (Null: nothing, it goes on):
\* the role check comes first, validationResult second.
EventOpAnswer(role, valid) ==
    IF ~IsAdmin(role) THEN Forbidden
    ELSE IF ~valid THEN ValidationFailed ELSE Null

\* A request for an event route arrives: `auth`, then the handler up to its await.
EventOpReceive(r, op, id, b, c) ==
    /\ pc[r] = "idle"
    /\ \A q \in Requests : q < r => pc[q] # "idle"
    /\ route' = [route EXCEPT ![r] = op]
    /\ reqEvent' = [reqEvent EXCEPT ![r] = id]
    /\ reqBody' = [reqBody EXCEPT ![r] = b]
    /\ caller' = [caller EXCEPT ![r] = c]
    /\ IF ~Authenticated(c)
       THEN Respond(r, Unauthorized)
       ELSE IF EventOpAnswer(c, ValidEventBody(op, b)) # Null
            THEN Respond(r, EventOpAnswer(c, ValidEventBody(op, b)))
            ELSE pc' = [pc EXCEPT ![r] = "eventOp"] /\ UNCHANGED <<res, caught>>
    /\ UNCHANGED <<storeVars, userId, newUserId, regId, prior>>
    /\ UNCHANGED <<resBody, contactVars, accountVars, extraVars>>

\* await prisma.event.create({ data: req.body }), then the 201.
EventCreate(r) ==
    /\ pc[r] = "eventOp"
    /\ route[r] = CreateEventRoute
    /\ events' = [e \in DOMAIN events \cup {NewEventIds[r]} |->
                    IF e = NewEventIds[r] THEN NewEvent(reqBody[r]) ELSE events[e]]
    /\ Respond(r, EventCreated)
    /\ UNCHANGED <<users, registrations, route, reqEvent, reqBody, userId, newUserId,
                   regId, prior>>
    /\ UNCHANGED otherVars

\* await prisma.event.update({ where: { id }, data: req.body }); the update
\* rejects when no row has the id.
EventUpdate(r) ==
    /\ pc[r] = "eventOp"
    /\ route[r] = UpdateEventRoute
    /\ IF reqEvent[r] \in DOMAIN events
       THEN /\ events' = [events EXCEPT ![reqEvent[r]] = Overwritten(@, reqBody[r])]
            /\ Respond(r, EventUpdated)
       ELSE /\ Throw(r, RecordNotFound, EventOpFailed(route[r]))
            /\ UNCHANGED events
    /\ UNCHANGED <<users, registrations, route, reqEvent, reqBody, userId, newUserId,
                   regId, prior>>
    /\ UNCHANGED otherVars

\* await prisma.event.delete({ where: { id } }); rejects when no row has the id.
EventDelete(r) ==
    /\ pc[r] = "eventOp"
    /\ route[r] = DeleteEventRoute
    /\ IF reqEvent[r] \in DOMAIN events
       THEN /\ events' = [e \in DOMAIN events \ {reqEvent[r]} |-> events[e]]
            /\ Respond(r, EventDeleted)
       ELSE /\ Throw(r, RecordNotFound, EventOpFailed(route[r]))
            /\ UNCHANGED events
    /\ UNCHANGED <<users, registrations, route, reqEvent, reqBody, userId, newUserId,
                   regId, prior>>
    /\ UNCHANGED otherVars

\* The store call of an event route rejects (store unavailable).
EventStoreError(r) ==
    /\ pc[r] = "eventOp"
    /\ Throw(r, StoreUnavailable, EventOpFailed(route[r]))
    /\ UNCHANGED <<storeVars, route, reqEvent, reqBody, userId, newUserId, regId, prior>>
    /\ UNCHANGED otherVars

\* ------------------------------------------------------------------ blog routes (database)

BlogCreateRoute == "POST /blog"

BlogUpdateRoute == "PUT /blog/:id"

BlogDeleteRoute == "DELETE /blog/:id"

BlogPublishRoute == "PATCH /blog/:id/publish"

\* The ids given to created posts, one per request, and an id of no post.
NewPostIds == [r \in Requests |-> <<"p1", "p2", "p3", "p4">>[r]]

MissingPostId == "pX"

\* A route, its req.params.id (Null: the route has none) and its body; only the
\* fields that are sent are present in a body.
BlogOps ==
    ({BlogCreateRoute} \X {Null} \X {[title |-> Hello], [title |-> <<"H", "i">>]})
    \cup ({BlogUpdateRoute} \X {"p1", MissingPostId}
              \X {[title |-> LongText], [isPublished |-> TRUE], [title |-> <<"H", "i">>]})
    \cup ({BlogDeleteRoute} \X {"p1", MissingPostId} \X {<<>>})
    \cup ({BlogPublishRoute} \X {"p1", MissingPostId}
              \X {[isPublished |-> TRUE], [isPublished |-> FALSE]})

\* The validation chains of POST / and PUT /:id (the title rule stands for all).
ValidPostBody(op, b) ==
    IF op = BlogCreateRoute THEN Has(b, "title") /\ Len(Trim(b.title)) \in 5..200
    ELSE IF op = BlogUpdateRoute THEN Has(b, "title") => Len(Trim(b.title)) \in 5..200
    ELSE TRUE

\* The row prisma.blogPost.create writes: published at once for an admin only.
NewPost(b, uid, role) ==
    [authorId |-> uid, title |-> b.title, isPublished |-> (role = "ADMIN")]

\* prisma.blogPost.update({ where: { id }, data: req.body }): the columns sent
\* overwrite the row.
PostOverwritten(row, b) ==
    [row EXCEPT !.title = IF Has(b, "title") THEN b.title ELSE @,
                !.isPublished = IF Has(b, "isPublished") THEN b.isPublished ELSE @]

PostCreated == "201 post"

PostReturned == "200 post"

PostDeleted == "200 Blog post deleted successfully"

PostNotFound == "404 Blog post not found"

NotPostOwner == "403 Not authorized for this post"

\* The failure answer of each blog route.
BlogFailed(op) ==
    IF op = BlogCreateRoute THEN "500 Failed to create blog post"
    ELSE IF op = BlogUpdateRoute THEN "500 Failed to update blog post"
    ELSE IF op = BlogDeleteRoute THEN "500 Failed to delete blog post"
    ELSE "500 Failed to update blog post status"

\* A blog request arrives with the token of user u (0: no token): `auth`, then
\* the handler up to its first await.
BlogReceive(r, op, id, b, u) ==
    /\ pc[r] = "idle"
    /\ \A q \in Requests : q < r => pc[q] # "idle"
    /\ route' = [route EXCEPT ![r] = op]
    /\ reqEvent' = [reqEvent EXCEPT ![r] = id]
    /\ reqBody' = [reqBody EXCEPT ![r] = b]
    /\ userId' = [userId EXCEPT ![r] = u]
    /\ caller' = [caller EXCEPT ![r] = IF u = 0 THEN Anonymous ELSE users[u].role]
    /\ IF u = 0
       THEN Respond(r, Unauthorized)
       ELSE IF op = BlogPublishRoute
            THEN IF ~IsAdmin(users[u].role)
                 THEN Respond(r, Forbidden)
                 ELSE pc' = [pc EXCEPT ![r] = "blogPublish"] /\ UNCHANGED <<res, caught>>
            ELSE IF ~ValidPostBody(op, b)
                 THEN Respond(r, ValidationFailed)
                 ELSE /\ pc' = [pc EXCEPT ![r] =
                              IF op = BlogCreateRoute THEN "blogCreate" ELSE "blogFindPost"]
                      /\ UNCHANGED <<res, caught>>
    /\ UNCHANGED <<storeVars, newUserId, regId, prior>>
    /\ UNCHANGED <<resBody, contactVars, accountVars, extraVars>>

\* await prisma.blogPost.create, then the 201.
BlogCreate(r) ==
    /\ pc[r] = "blogCreate"
    /\ blogPosts' = [p \in DOMAIN blogPosts \cup {NewPostIds[r]} |->
                       IF p = NewPostIds[r]
                       THEN NewPost(reqBody[r], userId[r], caller[r])
                       ELSE blogPosts[p]]
    /\ Respond(r, PostCreated)
    /\ UNCHANGED <<storeVars, route, reqEvent, reqBody, userId, newUserId, regId, prior>>
    /\ UNCHANGED <<caller, resBody, contactVars, accountVars>>
    /\ UNCHANGED <<blogFile, snapshot, issued, galleryVars>>

\* await prisma.blogPost.findUnique({ select: { authorId } }) of PUT and DELETE,
\* then the 404 and the author-or-admin check.
BlogFindPost(r) ==
    /\ pc[r] = "blogFindPost"
    /\ IF reqEvent[r] \notin DOMAIN blogPosts
       THEN Respond(r, PostNotFound)
       ELSE IF blogPosts[reqEvent[r]].authorId # userId[r] /\ ~IsAdmin(caller[r])
            THEN Respond(r, NotPostOwner)
            ELSE /\ pc' = [pc EXCEPT ![r] =
                         IF route[r] = BlogUpdateRoute THEN "blogUpdate" ELSE "blogDelete"]
                 /\ UNCHANGED <<res, caught>>
    /\ UNCHANGED <<storeVars, route, reqEvent, reqBody, userId, newUserId, regId, prior>>
    /\ UNCHANGED otherVars

\* await prisma.blogPost.update({ where: { id }, data: req.body }), then res.json.
BlogUpdate(r) ==
    /\ pc[r] = "blogUpdate"
    /\ IF reqEvent[r] \in DOMAIN blogPosts
       THEN /\ blogPosts' = [blogPosts EXCEPT ![reqEvent[r]] = PostOverwritten(@, reqBody[r])]
            /\ Respond(r, PostReturned)
       ELSE /\ Throw(r, RecordNotFound, BlogFailed(route[r]))
            /\ UNCHANGED blogPosts
    /\ UNCHANGED <<storeVars, route, reqEvent, reqBody, userId, newUserId, regId, prior>>
    /\ UNCHANGED <<caller, resBody, contactVars, accountVars>>
    /\ UNCHANGED <<blogFile, snapshot, issued, galleryVars>>

\* await prisma.blogPost.delete({ where: { id } }), then res.json.
BlogDelete(r) ==
    /\ pc[r] = "blogDelete"
    /\ IF reqEvent[r] \in DOMAIN blogPosts
       THEN /\ blogPosts' = [p \in DOMAIN blogPosts \ {reqEvent[r]} |-> blogPosts[p]]
            /\ Respond(r, PostDeleted)
       ELSE /\ Throw(r, RecordNotFound, BlogFailed(route[r]))
            /\ UNCHANGED blogPosts
    /\ UNCHANGED <<storeVars, route, reqEvent, reqBody, userId, newUserId, regId, prior>>
    /\ UNCHANGED <<caller, resBody, contactVars, accountVars>>
    /\ UNCHANGED <<blogFile, snapshot, issued, galleryVars>>

\* await prisma.blogPost.update({ data: { isPublished, publishedAt } }) of the
\* publish route, then res.json.
BlogPublish(r) ==
    /\ pc[r] = "blogPublish"
    /\ IF reqEvent[r] \in DOMAIN blogPosts
       THEN /\ blogPosts' = [blogPosts EXCEPT
                                ![reqEvent[r]].isPublished = reqBody[r].isPublished]
            /\ Respond(r, PostReturned)
       ELSE /\ Throw(r, RecordNotFound, BlogFailed(route[r]))
            /\ UNCHANGED blogPosts
    /\ UNCHANGED <<storeVars, route, reqEvent, reqBody, userId, newUserId, regId, prior>>
    /\ UNCHANGED <<caller, resBody, contactVars, accountVars>>
    /\ UNCHANGED <<blogFile, snapshot, issued, galleryVars>>

BlogSteps == {"blogCreate", "blogFindPost", "blogUpdate", "blogDelete", "blogPublish"}

\* A store call of a blog route rejects (store unavailable).
BlogStoreError(r) ==
    /\ pc[r] \in BlogSteps
    /\ Throw(r, StoreUnavailable, BlogFailed(route[r]))
    /\ UNCHANGED <<storeVars, route, reqEvent, reqBody, userId, newUserId, regId, prior>>
    /\ UNCHANGED otherVars

\* ------------------------------------------------------------------ blog routes (file)

FileListRoute == "GET /blog (file)"

FileGetRoute == "GET /blog/:id (file)"

FileTagsRoute == "GET /blog/tags/all (file)"

FileCreateRoute == "POST /blog (file)"

FileUpdateRoute == "PUT /blog/:id (file)"

FileDeleteRoute == "DELETE /blog/:id (file)"

FilePublishRoute == "PATCH /blog/:id/publish (file)"

FileReadRoutes == {FileListRoute, FileGetRoute, FileTagsRoute}

FileWriteRoutes == {FileCreateRoute, FileUpdateRoute, FileDeleteRoute, FilePublishRoute}

\* Ids of posts that are in the file before the requests at hand, and all ids a
\* request may name.
StoredPostIds == {"f1", "f2"}

RequestPostIds == StoredPostIds \cup {MissingPostId}

\* A route, its req.params.id (Null: the route has none) and its body.
FileOps ==
    ({FileListRoute, FileTagsRoute} \X {Null} \X {<<>>})
    \cup ({FileGetRoute, FileDeleteRoute} \X RequestPostIds \X {<<>>})
    \cup ({FileCreateRoute} \X {Null}
              \X {[title |-> Hello, tags |-> <<"bio">>], [title |-> <<"H", "i">>, tags |-> <<"bio">>]})
    \cup ({FileUpdateRoute} \X RequestPostIds \X {[title |-> LongText], [tags |-> <<"chem">>]})
    \cup ({FilePublishRoute} \X RequestPostIds
              \X {[isPublished |-> TRUE], [isPublished |-> FALSE]})

\* The validation chains of POST / and PUT /:id of the file-backed router.
ValidFilePostBody(op, b) ==
    IF op = FileCreateRoute
    THEN Has(b, "title") /\ Len(Trim(b.title)) \in 5..200 /\ Has(b, "tags") /\ Len(b.tags) >= 1
    ELSE IF op = FileUpdateRoute THEN Has(b, "title") => Len(Trim(b.title)) \in 5..200
    ELSE TRUE

\* newPost of POST /: published from the start.
NewFilePost(id, b) == [id |-> id, title |-> b.title, tags |-> b.tags, isPublished |-> TRUE]

\* { ...posts[postIndex], ...req.body }: the fields sent overwrite the post.
Spread(post, b) ==
    [f \in DOMAIN post |-> IF Has(b, f) THEN b[f] ELSE post[f]]

\* posts.findIndex(p => p.id === id), 0 for -1.
RECURSIVE FindIndex(_, _)
FindIndex(posts, id) ==
    IF posts = <<>> THEN 0
    ELSE IF posts[Len(posts)].id = id /\ FindIndex(SubSeq(posts, 1, Len(posts) - 1), id) = 0
         THEN Len(posts)
         ELSE FindIndex(SubSeq(posts, 1, Len(posts) - 1), id)

\* posts.splice(i, 1)
Splice(posts, i) == SubSeq(posts, 1, i - 1) \o SubSeq(posts, i + 1, Len(posts))

\* As Published, for a handler without the filter.
Unfiltered(posts) == posts

\* posts.filter(post => post.isPublished)
RECURSIVE Published(_)
Published(posts) ==
    IF posts = <<>> THEN <<>>
    ELSE IF Head(posts).isPublished
         THEN <<Head(posts)>> \o Published(Tail(posts))
         ELSE Published(Tail(posts))

\* [...new Set(seq)]: the first occurrence of each element, in order.
RECURSIVE Unique(_)
Unique(seq) ==
    IF seq = <<>> THEN <<>>
    ELSE LET rest == Unique(SubSeq(seq, 1, Len(seq) - 1)) IN
         IF \E i \in 1..Len(rest) : rest[i] = seq[Len(seq)]
         THEN rest ELSE Append(rest, seq[Len(seq)])

\* posts.flatMap(post => post.tags)
RECURSIVE FlatTags(_)
FlatTags(posts) ==
    IF posts = <<>> THEN <<>> ELSE Head(posts).tags \o FlatTags(Tail(posts))

\* The ids of the posts of an array.
RECURSIVE Ids(_)
Ids(posts) == IF posts = <<>> THEN <<>> ELSE <<Head(posts).id>> \o Ids(Tail(posts))

PostsListed == "200 posts"

TagsListed == "200 tags"

\* The failure answer of the file-backed routes.
FileFailed(op) ==
    IF op \in FileReadRoutes THEN "500 Failed to fetch"
    ELSE IF op = FileCreateRoute THEN "500 Failed to create blog post"
    ELSE IF op = FileDeleteRoute THEN "500 Failed to delete blog post"
    ELSE "500 Failed to update blog post"

\* What the handler answers when its write has gone through.
FileWritten(op) ==
    IF op = FileCreateRoute THEN PostCreated
    ELSE IF op = FileDeleteRoute THEN PostDeleted ELSE PostReturned

\* The handler is entered: the validation chain of POST / and PUT /:id, then the
\* call of readBlogPosts. No route of this router looks at who is calling.
FileReceive(r, op, id, b) ==
    /\ pc[r] = "idle"
    /\ \A q \in Requests : q < r => pc[q] # "idle"
    /\ route' = [route EXCEPT ![r] = op]
    /\ reqEvent' = [reqEvent EXCEPT ![r] = id]
    /\ reqBody' = [reqBody EXCEPT ![r] = b]
    /\ IF ~ValidFilePostBody(op, b)
       THEN Respond(r, ValidationFailed)
       ELSE pc' = [pc EXCEPT ![r] = "readPosts"] /\ UNCHANGED <<res, caught>>
    /\ UNCHANGED <<storeVars, userId, newUserId, regId, prior>>
    /\ UNCHANGED otherVars

\* await readBlogPosts() resolves, with the array of the file or, when anything
\* in it threw, with []; then the handler runs up to its answer or up to its
\* call of writeBlogPosts.
FileRead(r, ok) ==
    /\ pc[r] = "readPosts"
    /\ LET posts == IF ok THEN blogFile ELSE <<>>
           i == FindIndex(posts, reqEvent[r])
       IN  CASE route[r] = FileListRoute ->
                 /\ resBody' = [resBody EXCEPT ![r] = Ids(Published(posts))]
                 /\ Respond(r, PostsListed)
                 /\ UNCHANGED snapshot
            [] route[r] = FileTagsRoute ->
                 /\ resBody' = [resBody EXCEPT ![r] = Unique(FlatTags(Published(posts)))]
                 /\ Respond(r, TagsListed)
                 /\ UNCHANGED snapshot
            [] route[r] = FileGetRoute ->
                 /\ IF i = 0 \/ ~posts[i].isPublished
                    THEN Respond(r, PostNotFound) /\ UNCHANGED resBody
                    ELSE /\ resBody' = [resBody EXCEPT ![r] = <<posts[i].id>>]
                         /\ Respond(r, PostReturned)
                 /\ UNCHANGED snapshot
            [] route[r] = FileCreateRoute ->
                 /\ snapshot' = [snapshot EXCEPT ![r] =
                                    Append(posts, NewFilePost(NewPostIds[r], reqBody[r]))]
                 /\ pc' = [pc EXCEPT ![r] = "writePosts"]
                 /\ UNCHANGED <<res, caught, resBody>>
            [] route[r] \in {FileUpdateRoute, FileDeleteRoute, FilePublishRoute} ->
                 IF i = 0
                 THEN Respond(r, PostNotFound) /\ UNCHANGED <<snapshot, resBody>>
                 ELSE /\ snapshot' = [snapshot EXCEPT ![r] =
                                         IF route[r] = FileDeleteRoute
                                         THEN Splice(posts, i)
                                         ELSE [posts EXCEPT ![i] = Spread(@, reqBody[r])]]
                      /\ pc' = [pc EXCEPT ![r] = "writePosts"]
                      /\ UNCHANGED <<res, caught, resBody>>
    /\ UNCHANGED <<storeVars, route, reqEvent, reqBody, userId, newUserId, regId, prior>>
    /\ UNCHANGED <<caller, contactVars, accountVars>>
    /\ UNCHANGED <<blogPosts, blogFile, issued, galleryVars>>

\* await writeBlogPosts(posts) resolves: the file now holds the array of this
\* request, whatever it held; then the answer.
FileWrite(r) ==
    /\ pc[r] = "writePosts"
    /\ blogFile' = snapshot[r]
    /\ Respond(r, FileWritten(route[r]))
    /\ UNCHANGED <<storeVars, route, reqEvent, reqBody, userId, newUserId, regId, prior>>
    /\ UNCHANGED <<caller, resBody, contactVars, accountVars>>
    /\ UNCHANGED <<blogPosts, snapshot, issued, galleryVars>>

\* await writeBlogPosts(posts) rejects: the catch block answers 500.
FileWriteError(r) ==
    /\ pc[r] = "writePosts"
    /\ Throw(r, StoreUnavailable, FileFailed(route[r]))
    /\ UNCHANGED <<storeVars, route, reqEvent, reqBody, userId, newUserId, regId, prior>>
    /\ UNCHANGED otherVars

\* ------------------------------------------------------------------ login, /me, /refresh, /reset-password

LoginRoute == "POST /auth/login"

MeRoute == "GET /auth/me"

RefreshRoute == "POST /auth/refresh"

ResetRoute == "POST /auth/reset-password"

TokenRoutes == {MeRoute, RefreshRoute}

\* bcrypt.hash(password, 12), and bcrypt.compare(password, hash).
Hash(pw) == [bcrypt |-> pw]

Compare(pw, hash) == hash = Hash(pw)

\* The row of an account with its password column.
WithPassword(row, pw) ==
    [f \in DOMAIN row \cup {"password"} |-> IF f = "password" THEN Hash(pw) ELSE row[f]]

\* The payloads jwt.sign is called with: { userId } by login and refresh,
\* { userId, type: 'password-reset' } by forgot-password.
LoginToken(u) == [userId |-> u, type |-> Null]

PasswordResetToken(u) == [userId |-> u, type |-> "password-reset"]

\* The tokens a request may carry. jwt.verify accepts the ones
\* that were signed with the secret, that is, the issued ones.
Tokens == { LoginToken(u) : u \in 1..2 } \cup { PasswordResetToken(u) : u \in 1..2 }

\* The request carries no token.
NoToken == [userId |-> 0, type |-> "none"]

Verified(t) == t \in issued

\* req.body of a login request.
LoginBodies ==
    { [email |-> "a@x.ca", password |-> "secret1"],
      [email |-> "a@x.ca", password |-> "wrong12"],
      [email |-> "b@x.ca", password |-> "secret1"],
      [email |-> "c@x.ca", password |-> "secret1"],
      [email |-> "a@x.ca", password |-> ""] }

ValidLoginBody(b) == IsEmail(b.email) /\ Len(b.password) > 0

\* req.body of a reset-password request.
ResetBodies == (Tokens \cup {NoToken}) \X {"newpass1", "abc"}

ValidResetBody(t, pw) == t # NoToken /\ Len(pw) >= 6

InvalidCredentials == "401 Invalid credentials"

AccountDeactivated == "401 Account is deactivated"

LoginSuccessful == "200 Login successful"

LoginFailed == "500 Failed to log in"

NoTokenProvided == "401 No token provided"

InvalidToken == "401 Invalid token"

UserInactive == "401 User not found or inactive"

ProfileServed == "200 user"

TokenRefreshed == "200 Token refreshed successfully"

TokenFailed(op) ==
    IF op = MeRoute THEN "500 Failed to fetch user profile" ELSE "500 Failed to refresh token"

InvalidResetToken == "400 Invalid or expired reset token"

InvalidTokenType == "400 Invalid token type"

PasswordReset == "200 Password reset successfully"

ResetFailed == "500 Failed to reset password"

\* As TokenUserOk, for a handler that only looks whether the user exists.
TokenUserExists(u) == u \in 1..Len(users)

\* The negation of `!user || !user.isActive` of /me and /refresh.
TokenUserOk(u) == u \in 1..Len(users) /\ IsActive(u)

\* POST /auth/login arrives: the validation chain, then the user lookup.
LoginReceive(r, b) ==
    /\ pc[r] = "idle"
    /\ \A q \in Requests : q < r => pc[q] # "idle"
    /\ route' = [route EXCEPT ![r] = LoginRoute]
    /\ reqBody' = [reqBody EXCEPT ![r] = b]
    /\ IF ValidLoginBody(b)
       THEN pc' = [pc EXCEPT ![r] = "loginFindUser"] /\ UNCHANGED <<res, caught>>
       ELSE Respond(r, ValidationFailed)
    /\ UNCHANGED <<storeVars, reqEvent, userId, newUserId, regId, prior>>
    /\ UNCHANGED otherVars

\* await prisma.user.findUnique({ where: { email } }), then the two early
\* returns and the call of bcrypt.compare on the row that was read.
LoginFindUser(r) ==
    /\ pc[r] = "loginFindUser"
    /\ LET found == UsersByEmail(reqBody[r].email) IN
         IF found = {}
         THEN Respond(r, InvalidCredentials) /\ UNCHANGED userId
         ELSE LET u == CHOOSE u \in found : TRUE IN
              IF ~IsActive(u)
              THEN Respond(r, AccountDeactivated) /\ UNCHANGED userId
              ELSE /\ userId' = [userId EXCEPT ![r] = u]
                   /\ pc' = [pc EXCEPT ![r] =
                                IF Compare(reqBody[r].password, users[u].password)
                                THEN "loginSign" ELSE "loginReject"]
                   /\ UNCHANGED <<res, caught>>
    /\ UNCHANGED <<storeVars, route, reqEvent, reqBody, newUserId, regId, prior>>
    /\ UNCHANGED otherVars

\* await bcrypt.compare resolves: 401 for a wrong password, else jwt.sign and
\* the answer with the token.
LoginCompare(r) ==
    /\ pc[r] \in {"loginSign", "loginReject"}
    /\ IF pc[r] = "loginReject"
       THEN Respond(r, InvalidCredentials) /\ UNCHANGED <<issued, resBody>>
       ELSE /\ issued' = issued \cup {LoginToken(userId[r])}
            /\ resBody' = [resBody EXCEPT ![r] = <<userId[r]>>]
            /\ Respond(r, LoginSuccessful)
    /\ UNCHANGED <<storeVars, route, reqEvent, reqBody, userId, newUserId, regId, prior>>
    /\ UNCHANGED <<caller, contactVars, accountVars, blogVars, galleryVars>>

\* The findUnique of the login rejects: the catch block answers 500.
LoginStoreError(r) ==
    /\ pc[r] = "loginFindUser"
    /\ Throw(r, StoreUnavailable, LoginFailed)
    /\ UNCHANGED <<storeVars, route, reqEvent, reqBody, userId, newUserId, regId, prior>>
    /\ UNCHANGED otherVars

\* GET /auth/me or POST /auth/refresh arrives with token t in the Authorization
\* header: no token, jwt.verify (which throws on a token not signed with the
\* secret), then the user lookup by decoded.userId.
TokenReceive(r, op, t) ==
    /\ pc[r] = "idle"
    /\ \A q \in Requests : q < r => pc[q] # "idle"
    /\ route' = [route EXCEPT ![r] = op]
    /\ reqBody' = [reqBody EXCEPT ![r] = [token |-> t]]
    /\ IF t = NoToken
       THEN Respond(r, NoTokenProvided) /\ UNCHANGED userId
       ELSE IF ~Verified(t)
            THEN Respond(r, InvalidToken) /\ UNCHANGED userId
            ELSE /\ userId' = [userId EXCEPT ![r] = t.userId]
                 /\ pc' = [pc EXCEPT ![r] = "tokenFindUser"]
                 /\ UNCHANGED <<res, caught>>
    /\ UNCHANGED <<storeVars, reqEvent, newUserId, regId, prior>>
    /\ UNCHANGED otherVars

\* await prisma.user.findUnique({ where: { id: decoded.userId } }), then the 401
\* or the answer: the profile, or a newly signed token.
TokenFindUser(r) ==
    /\ pc[r] = "tokenFindUser"
    /\ IF ~TokenUserOk(userId[r])
       THEN Respond(r, UserInactive) /\ UNCHANGED <<issued, resBody>>
       ELSE /\ resBody' = [resBody EXCEPT ![r] = <<userId[r]>>]
            /\ IF route[r] = MeRoute
               THEN Respond(r, ProfileServed) /\ UNCHANGED issued
               ELSE /\ issued' = issued \cup {LoginToken(userId[r])}
                    /\ Respond(r, TokenRefreshed)
    /\ UNCHANGED <<storeVars, route, reqEvent, reqBody, userId, newUserId, regId, prior>>
    /\ UNCHANGED <<caller, contactVars, accountVars, blogVars, galleryVars>>

\* The findUnique of /me or /refresh rejects: the catch block answers 500.
TokenStoreError(r) ==
    /\ pc[r] = "tokenFindUser"
    /\ Throw(r, StoreUnavailable, TokenFailed(route[r]))
    /\ UNCHANGED <<storeVars, route, reqEvent, reqBody, userId, newUserId, regId, prior>>
    /\ UNCHANGED otherVars

\* POST /auth/reset-password arrives with token t and a new password: the
\* validation chain, jwt.verify, the check of decoded.type, then bcrypt.hash.
ResetReceive(r, t, pw) ==
    /\ pc[r] = "idle"
    /\ \A q \in Requests : q < r => pc[q] # "idle"
    /\ route' = [route EXCEPT ![r] = ResetRoute]
    /\ reqBody' = [reqBody EXCEPT ![r] = [token |-> t, newPassword |-> pw]]
    /\ IF ~ValidResetBody(t, pw)
       THEN Respond(r, ValidationFailed) /\ UNCHANGED userId
       ELSE IF ~Verified(t)
            THEN Respond(r, InvalidResetToken) /\ UNCHANGED userId
            ELSE IF t.type # "password-reset"
                 THEN Respond(r, InvalidTokenType) /\ UNCHANGED userId
                 ELSE /\ userId' = [userId EXCEPT ![r] = t.userId]
                      /\ pc' = [pc EXCEPT ![r] = "resetUpdate"]
                      /\ UNCHANGED <<res, caught>>
    /\ UNCHANGED <<storeVars, reqEvent, newUserId, regId, prior>>
    /\ UNCHANGED otherVars

\* await bcrypt.hash and await prisma.user.update({ data: { password } }), then
\* the answer.
ResetUpdate(r) ==
    /\ pc[r] = "resetUpdate"
    /\ users' = [users EXCEPT ![userId[r]].password = Hash(reqBody[r].newPassword)]
    /\ Respond(r, PasswordReset)
    /\ UNCHANGED <<events, registrations, route, reqEvent, reqBody, userId, newUserId, regId, prior>>
    /\ UNCHANGED otherVars

\* The update rejects: the catch block answers 500.
ResetStoreError(r) ==
    /\ pc[r] = "resetUpdate"
    /\ Throw(r, StoreUnavailable, ResetFailed)
    /\ UNCHANGED <<storeVars, route, reqEvent, reqBody, userId, newUserId, regId, prior>>
    /\ UNCHANGED otherVars

\* ------------------------------------------------------------------ PUT /members/profile, PUT /members/:id, reactivate

ProfileRoute == "PUT /members/profile"

MemberUpdateRoute == "PUT /members/:id"

ReactivateRoute == "PATCH /members/:id/reactivate"

MemberRoutes == {ProfileRoute, MemberUpdateRoute, ReactivateRoute}

\* req.body of the two PUT routes: only the fields that are sent are present.
MemberBodies ==
    { [year |-> 2],
      [year |-> 9],
      [role |-> "ADMIN"],
      [role |-> "BOSS"],
      [isActive |-> FALSE],
      [email |-> "c@x.ca"],
      [email |-> "b@x.ca"],
      [senecaId |-> "S09"] }

\* The ids a member request may name in req.params.id, the last one of no user.
MemberIds == 1..3

\* A route, its req.params.id (0: the route has none) and its body.
MemberOps ==
    ({ProfileRoute} \X {0} \X MemberBodies)
    \cup ({MemberUpdateRoute} \X MemberIds \X MemberBodies)
    \cup ({ReactivateRoute} \X MemberIds \X {<<>>})

\* The validation chains of PUT /profile and PUT /:id; the chain of PUT /profile
\* has no rule for role or isActive.
ValidMemberBody(op, b) ==
    /\ Has(b, "year") => b.year \in 1..4
    /\ (op = MemberUpdateRoute /\ Has(b, "role")) => b.role \in Roles
    /\ (op = MemberUpdateRoute /\ Has(b, "isActive")) => b.isActive \in BOOLEAN

\* prisma.user.update({ data }): the columns sent overwrite the row. The store
\* rejects a value outside the Role enum and an email or senecaId of another row.
UpdateAccepted(id, b) ==
    /\ id \in 1..Len(users)
    /\ Has(b, "role") => b.role \in Roles
    /\ Has(b, "email") => \A u \in UsersByEmail(b.email) : u = id
    /\ Has(b, "senecaId") => \A u \in 1..Len(users) : users[u].senecaId = b.senecaId => u = id

\* data: req.body
UserOverwritten(row, b) ==
    [f \in DOMAIN row |-> IF Has(b, f) THEN b[f] ELSE row[f]]

\* The isActive column after the update, kept as the set of deactivated users.
InactiveAfter(id, b) ==
    IF ~Has(b, "isActive") THEN inactive
    ELSE IF b.isActive THEN inactive \ {id} ELSE inactive \cup {id}

AdminRequired == "403 Admin access required"

MemberReturned == "200 member"

Reactivated == "200 Account reactivated successfully"

MemberFailed(op) ==
    IF op = ProfileRoute THEN "500 Failed to update member profile"
    ELSE IF op = MemberUpdateRoute THEN "500 Failed to update member"
    ELSE "500 Failed to reactivate account"

\* A member request of user u passes `auth` and enters its handler: the admin
\* check of PUT /:id and reactivate, then the validation of the PUT routes.
MemberReceive(r, op, id, b, u) ==
    /\ pc[r] = "idle"
    /\ \A q \in Requests : q < r => pc[q] # "idle"
    /\ u \in 1..Len(users)
    /\ route' = [route EXCEPT ![r] = op]
    /\ reqBody' = [reqBody EXCEPT ![r] = b]
    /\ userId' = [userId EXCEPT ![r] = u]
    /\ newUserId' = [newUserId EXCEPT ![r] = IF op = ProfileRoute THEN u ELSE id]
    /\ caller' = [caller EXCEPT ![r] = users[u].role]
    /\ IF op # ProfileRoute /\ users[u].role # "ADMIN"
       THEN Respond(r, AdminRequired)
       ELSE IF op # ReactivateRoute /\ ~ValidMemberBody(op, b)
            THEN Respond(r, ValidationFailed)
            ELSE pc' = [pc EXCEPT ![r] = "memberWrite"] /\ UNCHANGED <<res, caught>>
    /\ UNCHANGED <<storeVars, reqEvent, regId, prior>>
    /\ UNCHANGED <<resBody, contactVars, accountVars, extraVars>>

\* await prisma.user.update: data: req.body for the PUT routes, data:
\* { isActive: true } for reactivate; then res.json, or the catch block's 500
\* when the update rejects.
MemberWrite(r) ==
    /\ pc[r] = "memberWrite"
    /\ LET id == newUserId[r]
           b == IF route[r] = ReactivateRoute THEN [isActive |-> TRUE] ELSE reqBody[r]
       IN  IF UpdateAccepted(id, b)
           THEN /\ users' = [users EXCEPT ![id] = UserOverwritten(@, b)]
                /\ inactive' = InactiveAfter(id, b)
                /\ Respond(r, IF route[r] = ReactivateRoute THEN Reactivated ELSE MemberReturned)
           ELSE /\ Throw(r, IF id \in 1..Len(users) THEN UniqueConstraint ELSE RecordNotFound,
                         MemberFailed(route[r]))
                /\ UNCHANGED <<users, inactive>>
    /\ UNCHANGED <<events, registrations, route, reqEvent, reqBody, userId, newUserId, regId, prior>>
    /\ UNCHANGED <<caller, resBody, contactVars, resetToken, extraVars>>

\* The update rejects because the store is unavailable: the catch block answers 500.
MemberStoreError(r) ==
    /\ pc[r] = "memberWrite"
    /\ Throw(r, StoreUnavailable, MemberFailed(route[r]))
    /\ UNCHANGED <<storeVars, route, reqEvent, reqBody, userId, newUserId, regId, prior>>
    /\ UNCHANGED otherVars

\* ------------------------------------------------------------------ POST /gallery

GalleryRoute == "POST /gallery"

\* req.file.mimetype, Null when no file came with the request.
Mimetypes == {Null, "image/png", "video/mp4", "application/pdf"}

\* req.body of an upload: a title of two characters and a category outside the
\* list break a rule each.
GalleryBodies ==
    { [title |-> Hello, category |-> "EVENTS"],
      [title |-> <<"H", "i">>, category |-> "EVENTS"],
      [title |-> Hello, category |-> "PARTY"] }

GalleryCategories == {"EVENTS", "WORKSHOPS", "SOCIALS", "COMPETITIONS", "FIELD_TRIPS", "OTHER"}

ValidGalleryBody(b) ==
    /\ Len(Trim(b.title)) \in 3..100
    /\ b.category \in GalleryCategories

\* The mimetypes for which the handler calls cloudinary.uploader.upload_stream.
IsMedia(m) == m \in {"image/png", "video/mp4"}

MediaRequired == "400 Media file is required"

UploadFailed == "500 Failed to upload media"

ItemCreated == "201 gallery item"

GalleryFailed == "500 Failed to create gallery item"

\* uploadResult.secure_url: uploadResult is what `.end(req.file.buffer)` returned,
\* the stream, which has no secure_url, whatever the upload comes to.
SecureUrl(upload) == Null

\* The row prisma.galleryItem.create writes.
NewGalleryItem(b, m, upload) ==
    [title |-> b.title, category |-> b.category,
     imageUrl |-> IF m = "image/png" THEN SecureUrl(upload) ELSE Null,
     videoUrl |-> IF m = "video/mp4" THEN SecureUrl(upload) ELSE Null]

\* res.status(...).json(...): the first call sends the response; a later call
\* on the same res throws ERR_HTTP_HEADERS_SENT and sends nothing.
Send(r, response) ==
    /\ sent' = [sent EXCEPT ![r] = @ + 1]
    /\ res' = [res EXCEPT ![r] = IF sent[r] = 0 THEN response ELSE @]

\* POST /gallery of user u (0: no token) with file of mimetype m: `auth`, the
\* validation, the file check, then upload_stream(...).end(buffer), whose await
\* resolves at once with the stream, and the call of prisma.galleryItem.create.
GalleryReceive(r, b, m, u) ==
    /\ pc[r] = "idle"
    /\ \A q \in Requests : q < r => pc[q] # "idle"
    /\ route' = [route EXCEPT ![r] = GalleryRoute]
    /\ reqBody' = [reqBody EXCEPT ![r] = [title |-> b.title, category |-> b.category,
                                            mimetype |-> m]]
    /\ userId' = [userId EXCEPT ![r] = u]
    /\ caller' = [caller EXCEPT ![r] = IF u = 0 THEN Anonymous ELSE users[u].role]
    /\ IF u = 0 \/ ~ValidGalleryBody(b) \/ m = Null
       THEN /\ Send(r, IF u = 0 THEN Unauthorized
                       ELSE IF ~ValidGalleryBody(b) THEN ValidationFailed ELSE MediaRequired)
            /\ pc' = [pc EXCEPT ![r] = "done"]
            /\ UNCHANGED uploaded
       ELSE /\ uploaded' = [uploaded EXCEPT ![r] = IF IsMedia(m) THEN "pending" ELSE Null]
            /\ pc' = [pc EXCEPT ![r] = "galleryCreate"]
            /\ UNCHANGED <<res, sent>>
    /\ UNCHANGED <<storeVars, reqEvent, newUserId, regId, prior, caught>>
    /\ UNCHANGED <<resBody, contactVars, accountVars, blogVars, issued, galleryItems>>

\* The callback given to upload_stream runs, with the result or with an error:
\* on an error it answers 500 itself.
UploadCallback(r, ok) ==
    /\ uploaded[r] = "pending"
    /\ uploaded' = [uploaded EXCEPT ![r] = IF ok THEN "uploaded" ELSE "failed"]
    /\ IF ok THEN UNCHANGED <<res, sent>> ELSE Send(r, UploadFailed)
    /\ UNCHANGED <<storeVars, route, pc, reqEvent, reqBody, userId, newUserId, regId, prior, caught>>
    /\ UNCHANGED <<caller, resBody, contactVars, accountVars, blogVars, issued, galleryItems>>

\* await prisma.galleryItem.create resolves, then res.status(201).json.
GalleryCreate(r) ==
    /\ pc[r] = "galleryCreate"
    /\ galleryItems' = Append(galleryItems,
                               NewGalleryItem(reqBody[r], reqBody[r].mimetype, uploaded[r]))
    /\ regId' = [regId EXCEPT ![r] = Len(galleryItems) + 1]
    /\ Send(r, ItemCreated)
    /\ pc' = [pc EXCEPT ![r] = "done"]
    /\ UNCHANGED <<storeVars, route, reqEvent, reqBody, userId, newUserId, prior, caught>>
    /\ UNCHANGED <<caller, resBody, contactVars, accountVars, blogVars, issued, uploaded>>

\* The create rejects: the catch block answers 500.
GalleryStoreError(r) ==
    /\ pc[r] = "galleryCreate"
    /\ caught' = [caught EXCEPT ![r] = StoreUnavailable]
    /\ Send(r, GalleryFailed)
    /\ pc' = [pc EXCEPT ![r] = "done"]
    /\ UNCHANGED <<storeVars, route, reqEvent, reqBody, userId, newUserId, regId, prior>>
    /\ UNCHANGED <<caller, resBody, contactVars, accountVars, blogVars, issued, galleryItems, uploaded>>

\* ------------------------------------------------------------------ specification

Next ==
    \/ \E r \in Requests, in \in RegisterInputs : Receive(r, in[1], in[2])
    \/ \E r \in Requests : FindEvent(r)
    \/ \E r \in Requests : FindUser(r)
    \/ \E r \in Requests : FindRegistration(r)
    \/ \E r \in Requests : CreateUser(r)
    \/ \E r \in Requests : CreateRegistration(r)
    \/ \E r \in Requests : UpdateEvent(r)
    \/ \E r \in Requests : StoreError(r)
    \/ \E r \in Requests, b \in AccountBodies : AuthReceive(r, b)
    \/ \E r \in Requests : AuthFindUser(r)
    \/ \E r \in Requests : AuthCreateUser(r)
    \/ \E r \in Requests : AuthStoreError(r)

Spec == Init /\ [][Next]_vars

\* The state in which the store holds the users `stored`, those in `off` being
\* deactivated, and no request has arrived yet.
InitCore(stored, off) ==
    /\ events = [e \in EventIds |->
                    [maxCapacity |-> InitialMaxCapacity(e), currentCapacity |-> 0]]
    /\ users = stored
    /\ registrations = <<>>
    /\ route = [r \in Requests |-> Null]
    /\ pc = [r \in Requests |-> "idle"]
    /\ reqEvent = [r \in Requests |-> Null]
    /\ reqBody = [r \in Requests |-> Null]
    /\ userId = [r \in Requests |-> 0]
    /\ newUserId = [r \in Requests |-> 0]
    /\ regId = [r \in Requests |-> 0]
    /\ res = [r \in Requests |-> Null]
    /\ caught = [r \in Requests |-> Null]
    /\ prior = [r \in Requests |-> {}]
    /\ caller = [r \in Requests |-> Null]
    /\ resBody = [r \in Requests |-> <<>>]
    /\ messages = <<>>
    /\ msgId = [r \in Requests |-> 0]
    /\ mailed = [r \in Requests |-> Null]
    /\ inactive = off
    /\ resetToken = [r \in Requests |-> 0]

InitWith(stored, off) == InitCore(stored, off) /\ InitExtra

AccountA == NewAccount(MkAccountBody("a@x.ca", "S01", "secret1"))

AccountB == NewAccount(MkAccountBody("b@x.ca", "S02", "secret1"))

\* The state after one account was created and before the requests at hand arrive.
InitSeeded == InitWith(<<AccountA>>, {})

SpecSeeded == InitSeeded /\ [][Next]_vars

\* A route and its req.params.id (0: the route has none); as many ids as requests.
MessageOps == ({MessagesRoute} \X {0}) \cup ({ReadRoute, DeleteRoute} \X Requests)

\* The contact routes: forms coming in, and the three message routes called by
\* callers of every role and by anonymous ones.
NextContact ==
    \/ \E r \in Requests, b \in ContactBodies : ContactReceive(r, b)
    \/ \E r \in Requests : ContactCreate(r)
    \/ \E r \in Requests : ContactStoreError(r)
    \/ \E r \in Requests, outcome \in {MailSent, MailFailed} : ContactSendMail(r, outcome)
    \/ \E r \in Requests, in \in MessageOps, c \in Callers :
          MessageOpReceive(r, in[1], in[2], c)
    \/ \E r \in Requests : MessagesFind(r)
    \/ \E r \in Requests : MessageMarkRead(r)
    \/ \E r \in Requests : MessageDelete(r)
    \/ \E r \in Requests : MessageStoreError(r)

SpecContact == Init /\ [][NextContact]_vars

\* Two accounts exist, the second one deactivated; forgot-password requests and
\* deactivations arrive.
StoredAccounts == <<AccountA, AccountB>>

InitAccounts == InitWith(StoredAccounts, {Len(StoredAccounts)})

NextForgot ==
    \/ \E r \in Requests, email \in ForgotEmails : ForgotReceive(r, email)
    \/ \E r \in Requests : ForgotFindUser(r)
    \/ \E r \in Requests : ForgotStoreError(r)
    \/ \E r \in Requests, u \in DOMAIN StoredAccounts : DeactivateReceive(r, u)
    \/ \E r \in Requests : DeactivateUpdate(r)
    \/ \E r \in Requests : DeactivateStoreError(r)

SpecForgot == InitAccounts /\ [][NextForgot]_vars

\* A route, its req.params.id (Null: the route has none) and its body.
EventOps ==
    ({CreateEventRoute} \X {Null} \X EventBodies)
    \cup ({UpdateEventRoute} \X {"e1", MissingEventId} \X EventBodies)
    \cup ({DeleteEventRoute} \X {"e1", MissingEventId} \X {<<>>})

\* The event routes, called by callers of every role and by anonymous ones.
NextEvents ==
    \/ \E r \in Requests, in \in EventOps, c \in Callers :
          EventOpReceive(r, in[1], in[2], in[3], c)
    \/ \E r \in Requests : EventCreate(r)
    \/ \E r \in Requests : EventUpdate(r)
    \/ \E r \in Requests : EventDelete(r)
    \/ \E r \in Requests : EventStoreError(r)

SpecEvents == Init /\ [][NextEvents]_vars

\* A member and an admin have accounts; blog requests arrive with the token of
\* either, or with none.
AdminAccount == [AccountB EXCEPT !.role = "ADMIN"]

BlogAccounts == <<AccountA, AdminAccount>>

InitBlog == InitWith(BlogAccounts, {})

NextBlog ==
    \/ \E r \in Requests, in \in BlogOps, u \in {0} \cup DOMAIN BlogAccounts :
          BlogReceive(r, in[1], in[2], in[3], u)
    \/ \E r \in Requests : BlogCreate(r)
    \/ \E r \in Requests : BlogFindPost(r)
    \/ \E r \in Requests : BlogUpdate(r)
    \/ \E r \in Requests : BlogDelete(r)
    \/ \E r \in Requests : BlogPublish(r)
    \/ \E r \in Requests : BlogStoreError(r)

SpecBlog == InitBlog /\ [][NextBlog]_vars

\* Register requests (well-formed, for stored events) and requests for the
\* registrations of an event, by callers of every role and by anonymous ones.
NextAccess ==
    \/ \E r \in Requests, e \in EventIds, b \in WellFormedBodies : Receive(r, e, b)
    \/ \E r \in Requests : FindEvent(r)
    \/ \E r \in Requests : FindUser(r)
    \/ \E r \in Requests : FindRegistration(r)
    \/ \E r \in Requests : CreateUser(r)
    \/ \E r \in Requests : CreateRegistration(r)
    \/ \E r \in Requests : UpdateEvent(r)
    \/ \E r \in Requests, e \in RequestEventIds, c \in Callers : ListReceive(r, e, c)
    \/ \E r \in Requests : ListFind(r)
    \/ \E r \in Requests : ListStoreError(r)

SpecAccess == Init /\ [][NextAccess]_vars


\* The file-backed blog routes, over a file that holds a published and an
\* unpublished post.
StoredPosts ==
    << [id |-> "f1", title |-> Hello, tags |-> <<"bio">>, isPublished |-> TRUE],
       [id |-> "f2", title |-> Hello, tags |-> <<"bio", "phys">>, isPublished |-> FALSE] >>

InitBlogFile == InitCore(<<>>, {}) /\ InitExtraWith(StoredPosts, {})

NextBlogFile ==
    \/ \E r \in Requests, o \in FileOps : FileReceive(r, o[1], o[2], o[3])
    \/ \E r \in Requests, ok \in BOOLEAN : FileRead(r, ok)
    \/ \E r \in Requests : FileWrite(r)
    \/ \E r \in Requests : FileWriteError(r)

SpecBlogFile == InitBlogFile /\ [][NextBlogFile]_vars

\* Two accounts with passwords, each with a login token signed earlier, the
\* second one deactivated since; logins, token requests, password resets,
\* forgot-password requests and deactivations arrive.
TokenAccounts == <<WithPassword(AccountA, "secret1"), WithPassword(AccountB, "secret1")>>

InitTokens ==
    /\ InitCore(TokenAccounts, {2})
    /\ InitExtraWith(<<>>, {LoginToken(1), LoginToken(2)})

NextTokens ==
    \/ \E r \in Requests, b \in LoginBodies : LoginReceive(r, b)
    \/ \E r \in Requests : LoginFindUser(r)
    \/ \E r \in Requests : LoginCompare(r)
    \/ \E r \in Requests : LoginStoreError(r)
    \/ \E r \in Requests, op \in TokenRoutes, t \in Tokens \cup {NoToken} : TokenReceive(r, op, t)
    \/ \E r \in Requests : TokenFindUser(r)
    \/ \E r \in Requests : TokenStoreError(r)
    \/ \E r \in Requests, o \in ResetBodies : ResetReceive(r, o[1], o[2])
    \/ \E r \in Requests : ResetUpdate(r)
    \/ \E r \in Requests : ResetStoreError(r)
    \/ \E r \in Requests, email \in {"a@x.ca", "b@x.ca"} : ForgotReceive(r, email)
    \/ \E r \in Requests : ForgotFindUser(r)
    \/ \E r \in Requests : ForgotStoreError(r)
    \/ \E r \in Requests, u \in DOMAIN TokenAccounts : DeactivateReceive(r, u)
    \/ \E r \in Requests : DeactivateUpdate(r)
    \/ \E r \in Requests : DeactivateStoreError(r)

SpecTokens == InitTokens /\ [][NextTokens]_vars

\* A member and an admin exist; profile updates, admin updates, reactivations
\* and deactivations arrive.
NextMembers ==
    \/ \E r \in Requests, o \in MemberOps, u \in DOMAIN BlogAccounts :
          MemberReceive(r, o[1], o[2], o[3], u)
    \/ \E r \in Requests : MemberWrite(r)
    \/ \E r \in Requests : MemberStoreError(r)
    \/ \E r \in Requests, u \in DOMAIN BlogAccounts : DeactivateReceive(r, u)
    \/ \E r \in Requests : DeactivateUpdate(r)
    \/ \E r \in Requests : DeactivateStoreError(r)

SpecMembers == InitBlog /\ [][NextMembers]_vars

\* Uploads to the gallery arrive, and the upload callbacks run.
NextGallery ==
    \/ \E r \in Requests, b \in GalleryBodies, m \in Mimetypes, u \in 0..1 :
          GalleryReceive(r, b, m, u)
    \/ \E r \in Requests, ok \in BOOLEAN : UploadCallback(r, ok)
    \/ \E r \in Requests : GalleryCreate(r)
    \/ \E r \in Requests : GalleryStoreError(r)

SpecGallery == InitBlog /\ [][NextGallery]_vars

\* ------------------------------------------------------------------ properties

RegisterRequests == { r \in Requests : route[r] = RegisterRoute }

\* The Registration rows of event e.
RowsOf(e) == { i \in 1..Len(registrations) : registrations[i].eventId = e }

\* The events that have a capacity ceiling.
CappedEvents == { e \in DOMAIN events : events[e].maxCapacity # 0 }

\* The register requests for event e answered with `response`.
Answered(e, response) ==
    { r \in RegisterRequests : reqEvent[r] = e /\ res[r] = response }

\* C1: for every event with a capacity ceiling, in every reachable state, the
\* recorded count and the number of the event's Registration rows are at most the
\* ceiling, whatever the interleaving of the register requests.
NoOverbooking ==
    \A e \in CappedEvents :
        /\ events[e].currentCapacity <= events[e].maxCapacity
        /\ Cardinality(RowsOf(e)) <= events[e].maxCapacity

\* C2: when all the requests of a run are register requests for one event with
\* ceiling C and count 0, from distinct and previously unknown participants, more of
\* them than C, and the store answers every call, then once all have been answered
\* exactly C were answered 201 and the others 'Event is at full capacity'.
ExactlyCeilingSucceed ==
    \A e \in CappedEvents :
        ( /\ \A r \in Requests :
                /\ pc[r] = "done"
                /\ route[r] = RegisterRoute
                /\ reqEvent[r] = e
                /\ ValidRegisterBody(reqBody[r])
                /\ caught[r] = Null
          /\ \A r, q \in Requests :
                r # q => /\ reqBody[r].email # reqBody[q].email
                         /\ reqBody[r].senecaId # reqBody[q].senecaId
          /\ NumReq > events[e].maxCapacity )
        => /\ Cardinality(Answered(e, Created)) = events[e].maxCapacity
           /\ Cardinality(Answered(e, CapacityExceeded)) = NumReq - events[e].maxCapacity

MissingEventAlwaysNotFound ==
    \A r \in RegisterRequests :
        (pc[r] = "done" /\ reqEvent[r] \notin DOMAIN events)
        => /\ res[r] = EventNotFound
           /\ newUserId[r] = 0
           /\ regId[r] = 0

\* C5 (amended): a register request whose event id names no event never looks up or
\* creates a User and never creates a Registration; it is answered 400 when its body
\* fails validation, 500 when the event lookup is rejected by the store, and 404
\* otherwise. No Registration row names a missing event.
MissingEventRejected ==
    /\ \A r \in RegisterRequests :
          reqEvent[r] \notin DOMAIN events
          => /\ userId[r] = 0
             /\ newUserId[r] = 0
             /\ regId[r] = 0
             /\ pc[r] = "done"
                  => res[r] = IF ~ValidRegisterBody(reqBody[r]) THEN ValidationFailed
                              ELSE IF caught[r] # Null THEN RegisterFailed
                              ELSE EventNotFound
    /\ \A i \in 1..Len(registrations) : registrations[i].eventId \in DOMAIN events

\* A request for a missing event was answered 404.
MissingEventAnswered ==
    \E r \in RegisterRequests : reqEvent[r] = MissingEventId /\ res[r] = EventNotFound

\* C6: the step in which a register request is answered 201 increases the count of
\* the request's event by exactly 1 and changes no other event; by then the request
\* has created exactly one Registration row, the one for (its user, its event).
SuccessCountsOnce ==
    [][\A r \in Requests :
          (res[r] = Null /\ res'[r] = Created)
          => /\ reqEvent[r] \in DOMAIN events
             /\ events' = [events EXCEPT
                             ![reqEvent[r]].currentCapacity =
                                 events[reqEvent[r]].currentCapacity + 1]
             /\ regId[r] \in 1..Len(registrations)
             /\ registrations[regId[r]] = [userId |-> userId[r], eventId |-> reqEvent[r]]
             /\ \A q \in Requests : q # r => regId[q] # regId[r]
             /\ registrations' = registrations]_vars

\* A request was answered 201 and its event counts at least one registration.
SomeoneRegistered ==
    \E r \in RegisterRequests :
        res[r] = Created /\ events[reqEvent[r]].currentCapacity >= 1

\* C7: whenever a register request is about to read an event, the event's count
\* equals the number of its Registration rows (no request observes the insert of
\* another request without its increment).
CountEqualsRows ==
    \A r \in RegisterRequests :
        (pc[r] = "findEvent" /\ reqEvent[r] \in DOMAIN events)
        => events[reqEvent[r]].currentCapacity = Cardinality(RowsOf(reqEvent[r]))

FullName(u) ==
    IF u.lastName = <<>> THEN u.firstName ELSE u.firstName \o <<" ">> \o u.lastName

\* C9: after a request was answered 201, the listing of its event has exactly one
\* entry for the request's user, and that entry shows the name, email, program and
\* year that the request submitted.
RoundTrip ==
    \A r \in RegisterRequests :
        res[r] = Created
        => LET list == ListRegistrations(reqEvent[r])
               mine == { i \in 1..Len(list) : list[i].userId = userId[r] }
           IN /\ Cardinality(mine) = 1
              /\ \A i \in mine :
                    /\ FullName(list[i].user) = reqBody[r].name
                    /\ list[i].user.email = reqBody[r].email
                    /\ list[i].user.program = reqBody[r].program
                    /\ list[i].user.year = reqBody[r].year

\* C10: the checks run in the order event-exists, capacity, participant,
\* duplicate. A request that reads its event is answered 404 if there is none and
\* 'Event is at full capacity' if it is full, without touching the User table, and
\* goes on to the participant lookup otherwise; a request answered 404 or
\* 'full capacity' has neither looked up nor created a participant, and one answered
\* 'Already registered' has resolved its participant.
ChecksInOrder ==
    /\ [][\A r \in Requests :
            (pc[r] = "findEvent" /\ pc'[r] # "findEvent" /\ caught'[r] = Null)
            => IF reqEvent[r] \notin DOMAIN events
               THEN res'[r] = EventNotFound /\ users' = users
               ELSE IF /\ events[reqEvent[r]].maxCapacity # 0
                       /\ events[reqEvent[r]].currentCapacity
                            >= events[reqEvent[r]].maxCapacity
                    THEN res'[r] = CapacityExceeded /\ users' = users
                    ELSE pc'[r] = "findUser" /\ res'[r] = Null]_vars
    /\ [](\A r \in RegisterRequests :
            /\ res[r] \in {EventNotFound, CapacityExceeded}
                 => userId[r] = 0 /\ newUserId[r] = 0 /\ regId[r] = 0
            /\ res[r] = AlreadyRegistered => userId[r] # 0 /\ newUserId[r] = 0
            /\ regId[r] # 0 => userId[r] # 0)

\* A participant who is registered for a full event asked again and was told the
\* event is full.
RegisteredButToldFull ==
    \E r \in RegisterRequests :
        /\ res[r] = CapacityExceeded
        /\ \E u \in MatchingUsers(reqBody[r].email, reqBody[r].senecaId) :
              HasRegistration(u, reqEvent[r])

\* A body that breaks a rule of the form: no name, no valid e-mail address, no
\* Seneca id, no program, or a year outside 1..4.
BreaksARule(b) ==
    \/ \A i \in 1..Len(b.name) : b.name[i] = " "
    \/ b.email \notin WellFormedEmails
    \/ b.senecaId = ""
    \/ b.program = ""
    \/ b.year \notin 1..4

\* C12: a register request whose body breaks a rule of the form is answered 400
\* on arrival and is finished, and the step changes no Event, User or Registration
\* row, whether or not the event exists or is full.
InvalidBodyChangesNothing ==
    [][\A r \in Requests :
          (pc[r] = "idle" /\ route'[r] = RegisterRoute /\ BreaksARule(reqBody'[r]))
          => /\ res'[r] = ValidationFailed
             /\ pc'[r] = "done"
             /\ storeVars' = storeVars]_vars

\* A malformed body for the event with a ceiling was answered 400 when the event
\* already held a registration of the same student and was full.
InvalidBodyForFullEvent ==
    \E r \in RegisterRequests :
        /\ res[r] = ValidationFailed
        /\ BreaksARule(reqBody[r])
        /\ reqEvent[r] = "e1"
        /\ prior[r] # {}
        /\ IsFull(events["e1"])

\* C13: when the event lookup of a register request returns (no store failure), the
\* request is answered CapacityExceeded exactly when the event has a ceiling and
\* its count has reached it; for an event without a ceiling the request goes on to
\* the participant lookup, whatever the event's count is.
CeilingOnlyWhenSet ==
    [][\A r \in Requests :
          (/\ pc[r] = "findEvent"
           /\ pc'[r] # "findEvent"
           /\ caught'[r] = Null
           /\ reqEvent[r] \in DOMAIN events)
          => LET ev == events[reqEvent[r]] IN
             /\ res'[r] = CapacityExceeded
                  <=> (ev.maxCapacity # 0 /\ ev.currentCapacity >= ev.maxCapacity)
             /\ ev.maxCapacity = 0 => pc'[r] = "findUser"]_vars

\* The event without a ceiling holds two registrations, both answered 201.
UncappedEventKeepsAccepting ==
    /\ events["e2"].maxCapacity = 0
    /\ events["e2"].currentCapacity >= 2
    /\ Cardinality(Answered("e2", Created)) >= 2

ListRequests == { r \in Requests : route[r] = ListRoute }

ModeratorPassesAdminGate ==
    \A r \in ListRequests : caller[r] = "MODERATOR" => res[r] # Forbidden

\* C15: the participant lookup of a register request takes the user whose email
\* matches whenever there is one, and falls back to the user with the senecaId
\* only when no email matches: with the email of user A and the senecaId of
\* user B, A is chosen.
EmailMatchFirst ==
    [][\A r \in Requests :
          (/\ pc[r] = "findUser"
           /\ pc'[r] = "findRegistration"
           /\ UsersByEmail(reqBody[r].email) # {})
          => userId'[r] \in UsersByEmail(reqBody[r].email)]_vars

\* The handler of request r can take its next step without any store failure.
CanProceed(r) ==
    ENABLED (\/ FindEvent(r) \/ FindUser(r) \/ FindRegistration(r)
             \/ CreateUser(r) \/ CreateRegistration(r) \/ UpdateEvent(r))

ContactRequests == { r \in Requests : route[r] = ContactRoute }

MessageRoutes == {MessagesRoute, ReadRoute, DeleteRoute}

\* C17: when the sendMail of a contact form settles, sent or failed, the request
\* is answered 201 and the step leaves the stored messages as they are: a form
\* whose notification failed is answered 201, with no error caught by the outer
\* catch and with its message written.
MailFailureNotFatal ==
    /\ [](\A r \in ContactRequests :
            mailed[r] = MailFailed
            => (res[r] = ContactSubmitted /\ caught[r] = Null /\ msgId[r] # 0))
    /\ [][\A r \in Requests :
            (pc[r] = "sendMail" /\ pc'[r] # "sendMail")
            => (res'[r] = ContactSubmitted /\ messages' = messages)]_vars

\* The notification of a form failed; the form was answered 201 and its message
\* is in the store.
MailFailedMessageKept ==
    \E r \in ContactRequests :
        /\ mailed[r] = MailFailed
        /\ res[r] = ContactSubmitted
        /\ msgId[r] \in MessageIds

\* C18: listing the contact messages, marking one read and deleting one are
\* answered only to an ADMIN: such a request of any other caller gets no
\* messages and changes none.
MessageRoutesAdminOnly ==
    \A r \in Requests :
        (route[r] \in MessageRoutes /\ caller[r] # "ADMIN")
        => res[r] \notin {MessagesListed, MessageRead, MessageDeleted}

ForgotRequests == { r \in Requests : route[r] = ForgotRoute }

\* The forgot-password requests with a well-formed email that were answered
\* without a store failure.
ForgotAnswered ==
    { r \in ForgotRequests :
        pc[r] = "done" /\ caught[r] = Null /\ IsEmail(reqBody[r].email) }

EventRequests == { r \in Requests : route[r] \in EventRoutes }

\* C21: whatever event requests have run (create, update, delete), no stored
\* event with a ceiling has a count above its ceiling.
EventWritesKeepCeiling ==
    \A e \in DOMAIN events :
        events[e].maxCapacity # 0 => events[e].currentCapacity <= events[e].maxCapacity

AdminPublishes(p) ==
    { r \in Requests :
        /\ route[r] = BlogPublishRoute
        /\ reqEvent[r] = p
        /\ caller[r] = "ADMIN"
        /\ res[r] = PostReturned }

\* C23: a post whose author is not an admin is published only if an admin's
\* request to the publish route was answered for it; the requests of its author
\* (create, update, delete) do not publish it.
OnlyAdminPublishes ==
    \A p \in DOMAIN blogPosts :
        (blogPosts[p].isPublished /\ users[blogPosts[p].authorId].role # "ADMIN")
        => AdminPublishes(p) # {}


\* The post with this id is in the file and published.
PublishedInFile(id) ==
    \E i \in 1..Len(blogFile) : blogFile[i].id = id /\ blogFile[i].isPublished

\* C24: the public reads of the file-backed blog expose published posts
\* only: whenever GET /blog, GET /blog/{id} or GET /blog/tags/all answers, every
\* post listed is a published post of the file, the single post is returned only
\* when it is published and 404 is answered when it is unpublished or absent, and
\* every tag returned is a tag of a published post.
PublicReadsShowPublishedOnly ==
    [][\A r \in Requests :
          (pc[r] = "readPosts" /\ pc'[r] = "done" /\ route[r] \in FileReadRoutes)
          => /\ route[r] = FileListRoute
                => \A k \in 1..Len(resBody'[r]) : PublishedInFile(resBody'[r][k])
             /\ route[r] = FileGetRoute
                => /\ res'[r] = PostReturned
                      => (PublishedInFile(reqEvent[r]) /\ resBody'[r] = <<reqEvent[r]>>)
                   /\ ~PublishedInFile(reqEvent[r]) => res'[r] = PostNotFound
             /\ route[r] = FileTagsRoute
                => \A k \in 1..Len(resBody'[r]) :
                      \E i \in 1..Len(blogFile) :
                          /\ blogFile[i].isPublished
                          /\ \E t \in 1..Len(blogFile[i].tags) :
                                blogFile[i].tags[t] = resBody'[r][k]]_vars

\* The file holds an unpublished post; its GET was answered 404 and the listing
\* answered with the published post alone.
UnpublishedPostHidden ==
    /\ \E i \in 1..Len(blogFile) : blogFile[i].id = "f2" /\ ~blogFile[i].isPublished
    /\ \E r \in Requests :
          route[r] = FileGetRoute /\ reqEvent[r] = "f2" /\ res[r] = PostNotFound
    /\ \E r \in Requests :
          route[r] = FileListRoute /\ res[r] = PostsListed /\ resBody[r] = <<"f1">>

\* C25: under concurrent create, update, publish and delete requests of the
\* file-backed blog no acknowledged write is lost: a post whose create was
\* answered 201, and whose delete was never acknowledged, is in the file.
NoAcknowledgedWriteLost ==
    \A r \in Requests :
        ( /\ route[r] = FileCreateRoute
          /\ res[r] = PostCreated
          /\ ~\E q \in Requests :
                route[q] = FileDeleteRoute /\ reqEvent[q] = NewPostIds[r] /\ res[q] = PostDeleted )
        => \E i \in 1..Len(blogFile) : blogFile[i].id = NewPostIds[r]

TokenKindsNotInterchangeable ==
    \A r \in Requests :
        /\ (route[r] \in TokenRoutes /\ pc[r] = "done" /\ reqBody[r].token.type = "password-reset")
           => res[r] \notin {ProfileServed, TokenRefreshed}
        /\ ( /\ route[r] = ResetRoute /\ pc[r] = "done"
             /\ reqBody[r].token.type = Null /\ res[r] # ValidationFailed
             /\ reqBody[r].token \in issued )
           => res[r] = InvalidTokenType

\* C28: PUT /members/profile sent by a non-admin never changes the role,
\* the isActive flag, the email or the senecaId of any user.
ProfileKeepsPrivilegedColumns ==
    [][\A r \in Requests :
          (pc[r] = "memberWrite" /\ route[r] = ProfileRoute /\ caller[r] # "ADMIN")
          => /\ inactive' = inactive
             /\ \A u \in DOMAIN users :
                   /\ users'[u].role = users[u].role
                   /\ users'[u].email = users[u].email
                   /\ users'[u].senecaId = users[u].senecaId]_vars

\* C29: a register request answered 500 leaves no trace: no Participant row
\* and no Registration row written by that request persists.
FailedRegisterLeavesNoTrace ==
    \A r \in RegisterRequests :
        res[r] = RegisterFailed
        => /\ newUserId[r] = 0 \/ newUserId[r] \notin 1..Len(users)
           /\ regId[r] = 0 \/ regId[r] \notin 1..Len(registrations)

\* C30: POST /gallery sends exactly one response per request whatever the
\* order of the upload callback and the main flow, and no item is stored for a
\* request whose upload failed or was never started.
GalleryOneResponseAndUploadedOnly ==
    \A r \in Requests :
        route[r] = GalleryRoute
        => /\ sent[r] <= 1
           /\ (pc[r] = "done" /\ uploaded[r] # "pending") => sent[r] = 1
           /\ regId[r] # 0 => uploaded[r] \in {"pending", "uploaded"}
====
